---- MODULE Spec2Model ----
(***************************************************************************)
(* Model of the messenger_wrapped_dm analysis pipeline:                    *)
(*   parser.py  : maybe_fix_mojibake, is_ignored_system_message,           *)
(*                load_messages                                            *)
(*   text.py    : tokenize, tokenize_raw, generate_ngrams,                 *)
(*                is_meaningful_phrase, sentiment_tokenize,                *)
(*                sentiment_score, extract_emojis, extract_links           *)
(*   metrics.py : every statistic of the bundle, sentiment_stats,          *)
(*                compute_metrics                                          *)
(*   report.py  : the formatters, compute_radar, build_stats               *)
(*   cli.py     : main                                                     *)
(* A text is a sequence of Unicode code points, a byte string a sequence   *)
(* of numbers 0..255.  Times are whole milliseconds; a quotient is kept    *)
(* exact as <<numerator, denominator>>, the rounding of floating point     *)
(* left out.                                                               *)
(***************************************************************************)
EXTENDS Integers, Sequences, FiniteSets, TLC

VARIABLES
    mj_pc,       \* mojibake run: "input", "corrupted", "repaired", "again"
    mj_s,        \* the text the run started from
    mj_t,        \* the text handed to maybe_fix_mojibake
    mj_fixed,    \* maybe_fix_mojibake(mj_t)
    mj_fixed2,   \* maybe_fix_mojibake(mj_fixed)
    ld_pc,       \* load_messages: "start", "loop", "done", "format_error",
                 \*   "attribute_error", "overflow_error"
    ld_data,     \* the parsed JSON document
    ld_total,    \* len(messages_data)
    ld_idx,      \* number of entries of messages_data consumed by the loop
    ld_messages, \* messages
    ld_skipped,  \* skipped
    ld_entry,    \* the entry consumed last
    ld_fate,     \* what the loop did with it: "kept", "skipped", "raised"
    cm_pc,       \* compute_metrics: "input", "done"
    cm_messages, \* messages
    cm_tz,       \* tz
    cm_bounds,   \* <<min_response_seconds, max_response_seconds>>
    cm_out,      \* the bundle returned
    pt_pc,       \* percentile: "input", "done"
    pt_values,   \* values, the list of the caller
    pt_given,    \* the list as it was handed over
    pt_p,        \* p
    pt_result,   \* the value returned
    tx_pc,       \* text analysis: "input", "tokenized", "raw", "phrase",
                 \*   "judged"
    tx_text,     \* the content of a message
    tx_tokens,   \* tokenize(tx_text)
    tx_raw,      \* tokenize_raw(tx_text)
    tx_n,        \* the n of the n-gram taken
    tx_phrase,   \* one of generate_ngrams(tx_raw, tx_n)
    tx_meaningful, \* is_meaningful_phrase(tx_phrase)
    rp_pc,       \* report: "input", "computed", "built", "raised"
    rp_messages, \* messages
    rp_tz,       \* tz
    rp_scorer,   \* sentiment_scorer
    rp_metrics,  \* the bundle compute_metrics returned
    rp_stats,    \* what build_stats(rp_metrics) did
    sn_pc,       \* sentiment_stats with a scorer: "loop", "done"
    sn_items,    \* items
    sn_idx,      \* idx, the start of the next chunk
    sn_calls,    \* the calls of the scorer so far: the texts passed and
                 \*   whether the call raised
    sn_st,       \* per_sender_total, per_sender_count, by_month
    sn_out,      \* the value returned
    rn_pc,       \* two runs on one input: "input", "first", "second"
    rn_list,     \* the message list of the caller
    rn_given,    \* the list as the caller built it
    rn_input,    \* <<tz, sentiment_scorer>>
    rn_first,    \* <<bundle, stats>> of the first run
    rn_between,  \* number of runs on other inputs since the first run
    rn_other,    \* <<bundle, stats>> of the latest run on another input
    rn_second,   \* <<bundle, stats>> of the second run
    cl_pc,       \* main: "start", "timezone", "loaded", "checked",
                 \*   "scorer", "computed", "returned", "raised"
    cl_args,     \* the command line and what its files and models hold
    cl_messages, \* number of messages load_messages retained
    cl_calls,    \* the calls main made so far, in order
    cl_stderr,   \* the lines printed to stderr
    cl_stdout,   \* the lines printed to stdout
    cl_exit,     \* the value returned; -1 before the return
    od_pc,       \* compute_metrics on a stream in any order: "input", "done"
    od_messages, \* the list the caller passes, in the caller's order
    od_tz,       \* the timezone, as its offset from UTC in seconds
    od_out,      \* the bundle compute_metrics returned
    wd_pc,       \* compute_metrics on messages with markers: "input", "done"
    wd_messages, \* the messages passed
    wd_out,      \* the bundle compute_metrics returned
    wk_pc,       \* the token loop of sentiment_score: "loop", "done"
    wk_tokens,   \* the tokens of the text
    wk_idx,      \* number of tokens the loop has taken
    wk_w,        \* score, intensify and negate
    wk_trace,    \* score, intensify and negate after each token taken
    wn_pc,       \* the winners of build_stats: "input", "computed", "built", "raised"
    wn_messages, \* the messages handed to compute_metrics
    wn_metrics,  \* the bundle of compute_metrics
    wn_stats,    \* the dict of build_stats
    rs_pc,       \* the response summaries: "input", "computed"
    rs_messages, \* the messages handed to compute_metrics
    rs_out,      \* the bundle of compute_metrics
    sc_pc,       \* sentiment_stats with any scorer: "input", "done", "raised"
    sc_messages, \* the messages handed to sentiment_stats
    sc_outcome,  \* what the call of the scorer did
    sc_st,       \* the counters of sentiment_stats
    sc_out,      \* per_sender_stats and month_series
    en_pc,         \* engine_v4: "ready"
    en_CHATS_MAP,  \* CHATS_MAP of engine_v4: chat id and the files of the chat
    en_JSON_CACHE, \* JSON_CACHE of engine_v4: file name and parsed JSON
    en_calls,      \* number of calls of load_chats so far
    en_recent,     \* the chat ids the most recent call of load_chats made
    en_issued,     \* the chat ids handed to the page so far
    en_result,     \* what the last call handed back or raised
    lg_CHATS_MAP,  \* CHATS_MAP of logic_v3: chat id and the files of the chat
    lg_JSON_CACHE, \* JSON_CACHE of logic_v3: file name and parsed JSON
    lg_up,         \* the handle_upload coroutines: where each stands, its zip, its chat_groups
    lg_started,    \* number of uploads started so far
    lg_shown,      \* the chat ids of the list on the page
    lg_click,      \* the generate_report coroutine: where it stands, its chat id
    lg_report      \* what generate_report has built

mojiVars == <<mj_pc, mj_s, mj_t, mj_fixed, mj_fixed2>>

loadVars == <<ld_pc, ld_data, ld_total, ld_idx, ld_messages, ld_skipped,
              ld_entry, ld_fate>>

metricsVars == <<cm_pc, cm_messages, cm_tz, cm_bounds, cm_out>>

percentileVars == <<pt_pc, pt_values, pt_given, pt_p, pt_result>>

textVars == <<tx_pc, tx_text, tx_tokens, tx_raw, tx_n, tx_phrase,
              tx_meaningful>>

reportVars == <<rp_pc, rp_messages, rp_tz, rp_scorer, rp_metrics, rp_stats>>

sentimentVars == <<sn_pc, sn_items, sn_idx, sn_calls, sn_st, sn_out>>

runVars == <<rn_pc, rn_list, rn_given, rn_input, rn_first, rn_between,
             rn_other, rn_second>>

cliVars == <<cl_pc, cl_args, cl_messages, cl_calls, cl_stderr, cl_stdout,
             cl_exit>>

orderVars == <<od_pc, od_messages, od_tz, od_out>>

wordVars == <<wd_pc, wd_messages, wd_out>>

walkVars == <<wk_pc, wk_tokens, wk_idx, wk_w, wk_trace>>

winnerVars == <<wn_pc, wn_messages, wn_metrics, wn_stats>>

replyVars == <<rs_pc, rs_messages, rs_out>>

scoreVars == <<sc_pc, sc_messages, sc_outcome, sc_st, sc_out>>

engineVars == <<en_pc, en_CHATS_MAP, en_JSON_CACHE, en_calls, en_recent,
                en_issued, en_result>>

logicVars == <<lg_CHATS_MAP, lg_JSON_CACHE, lg_up, lg_started, lg_shown,
               lg_click, lg_report>>

\* what an action of one part leaves alone: the variables of the other parts
notMoji == <<loadVars, metricsVars, percentileVars, textVars, reportVars,
             sentimentVars, runVars, cliVars, orderVars, wordVars, walkVars,
             winnerVars, replyVars, scoreVars, engineVars, logicVars>>
notLoad == <<mojiVars, metricsVars, percentileVars, textVars, reportVars,
             sentimentVars, runVars, cliVars, orderVars, wordVars, walkVars,
             winnerVars, replyVars, scoreVars, engineVars, logicVars>>
notMetrics == <<mojiVars, loadVars, percentileVars, textVars, reportVars,
                sentimentVars, runVars, cliVars, orderVars, wordVars,
                walkVars, winnerVars, replyVars, scoreVars, engineVars,
                logicVars>>
notPercentile == <<mojiVars, loadVars, metricsVars, textVars, reportVars,
                   sentimentVars, runVars, cliVars, orderVars, wordVars,
                   walkVars, winnerVars, replyVars, scoreVars, engineVars,
                   logicVars>>
notText == <<mojiVars, loadVars, metricsVars, percentileVars, reportVars,
             sentimentVars, runVars, cliVars, orderVars, wordVars, walkVars,
             winnerVars, replyVars, scoreVars, engineVars, logicVars>>
notReport == <<mojiVars, loadVars, metricsVars, percentileVars, textVars,
               sentimentVars, runVars, cliVars, orderVars, wordVars,
               walkVars, winnerVars, replyVars, scoreVars, engineVars,
               logicVars>>
notSentiment == <<mojiVars, loadVars, metricsVars, percentileVars, textVars,
                  reportVars, runVars, cliVars, orderVars, wordVars,
                  walkVars, winnerVars, replyVars, scoreVars, engineVars,
                  logicVars>>
notRuns == <<mojiVars, loadVars, metricsVars, percentileVars, textVars,
             reportVars, sentimentVars, cliVars, orderVars, wordVars,
             walkVars, winnerVars, replyVars, scoreVars, engineVars,
             logicVars>>
notCli == <<mojiVars, loadVars, metricsVars, percentileVars, textVars,
            reportVars, sentimentVars, runVars, orderVars, wordVars,
            walkVars, winnerVars, replyVars, scoreVars, engineVars,
            logicVars>>
notOrder == <<mojiVars, loadVars, metricsVars, percentileVars, textVars,
              reportVars, sentimentVars, runVars, cliVars, wordVars,
              walkVars, winnerVars, replyVars, scoreVars, engineVars,
              logicVars>>
notWords == <<mojiVars, loadVars, metricsVars, percentileVars, textVars,
              reportVars, sentimentVars, runVars, cliVars, orderVars,
              walkVars, winnerVars, replyVars, scoreVars, engineVars,
              logicVars>>
notWalk == <<mojiVars, loadVars, metricsVars, percentileVars, textVars,
             reportVars, sentimentVars, runVars, cliVars, orderVars,
             wordVars, winnerVars, replyVars, scoreVars, engineVars,
             logicVars>>
notWinners == <<mojiVars, loadVars, metricsVars, percentileVars, textVars,
                reportVars, sentimentVars, runVars, cliVars, orderVars,
                wordVars, walkVars, replyVars, scoreVars, engineVars,
                logicVars>>
notReplies == <<mojiVars, loadVars, metricsVars, percentileVars, textVars,
                reportVars, sentimentVars, runVars, cliVars, orderVars,
                wordVars, walkVars, winnerVars, scoreVars, engineVars,
                logicVars>>
notScores == <<mojiVars, loadVars, metricsVars, percentileVars, textVars,
               reportVars, sentimentVars, runVars, cliVars, orderVars,
               wordVars, walkVars, winnerVars, replyVars, engineVars,
               logicVars>>
notEngine == <<mojiVars, loadVars, metricsVars, percentileVars, textVars,
               reportVars, sentimentVars, runVars, cliVars, orderVars,
               wordVars, walkVars, winnerVars, replyVars, scoreVars,
               logicVars>>
notLogic == <<mojiVars, loadVars, metricsVars, percentileVars, textVars,
              reportVars, sentimentVars, runVars, cliVars, orderVars,
              wordVars, walkVars, winnerVars, replyVars, scoreVars,
              engineVars>>

vars == <<mj_pc, mj_s, mj_t, mj_fixed, mj_fixed2, ld_pc, ld_data, ld_total,
          ld_idx, ld_messages, ld_skipped, ld_entry, ld_fate, cm_pc,
          cm_messages, cm_tz, cm_bounds, cm_out, pt_pc, pt_values, pt_given,
          pt_p, pt_result, tx_pc, tx_text, tx_tokens, tx_raw, tx_n,
          tx_phrase, tx_meaningful, rp_pc, rp_messages, rp_tz, rp_scorer,
          rp_metrics, rp_stats, sn_pc, sn_items, sn_idx, sn_calls, sn_st,
          sn_out, rn_pc, rn_list, rn_given, rn_input, rn_first, rn_between,
          rn_other, rn_second, cl_pc, cl_args, cl_messages, cl_calls,
          cl_stderr, cl_stdout, cl_exit, od_pc, od_messages, od_tz, od_out,
          wd_pc, wd_messages, wd_out, wk_pc, wk_tokens, wk_idx, wk_w,
          wk_trace, wn_pc, wn_messages, wn_metrics, wn_stats, rs_pc,
          rs_messages, rs_out, sc_pc, sc_messages, sc_outcome, sc_st, sc_out,
          en_pc, en_CHATS_MAP, en_JSON_CACHE, en_calls, en_recent, en_issued,
          en_result, lg_CHATS_MAP, lg_JSON_CACHE, lg_up, lg_started,
          lg_shown, lg_click, lg_report>>

(***************************************************************************)
(* Generic helpers                                                         *)
(***************************************************************************)
\* All sequences over S of length 0..n.
SeqsUpTo(S, n) == UNION {[1..k -> S] : k \in 0..n}

\* Number of positions of s holding an element of S.
CountIn(s, S) == Cardinality({i \in 1..Len(s) : s[i] \in S})

\* "needle in hay" for Python strings.
Contains(hay, needle) ==
    \E i \in 0..(Len(hay) - Len(needle)) :
        \A j \in 1..Len(needle) : hay[i + j] = needle[j]

(***************************************************************************)
(* Codecs used by str.encode / bytes.decode                                *)
(***************************************************************************)
\* str.encode("utf-8") of one code point; surrogates cannot be encoded.
Utf8EncodeChar(c) ==
    IF c < 128 THEN <<c>>
    ELSE IF c < 2048 THEN <<192 + (c \div 64), 128 + (c % 64)>>
    ELSE IF c < 65536
         THEN <<224 + (c \div 4096), 128 + ((c \div 64) % 64), 128 + (c % 64)>>
    ELSE <<240 + (c \div 262144), 128 + ((c \div 4096) % 64),
           128 + ((c \div 64) % 64), 128 + (c % 64)>>

RECURSIVE Utf8Encode(_)
Utf8Encode(s) ==
    IF s = <<>> THEN <<>> ELSE Utf8EncodeChar(Head(s)) \o Utf8Encode(Tail(s))

IsCont(b) == b >= 128 /\ b <= 191

\* Length of the well-formed UTF-8 sequence at the head of bs, 0 if there
\* is none (strict decoder: no overlong forms, no surrogates, max U+10FFFF).
Utf8SeqLen(bs) ==
    LET b1 == bs[1]
        n  == Len(bs)
    IN  IF b1 < 128 THEN 1
        ELSE IF b1 >= 194 /\ b1 <= 223
             THEN IF n >= 2 /\ IsCont(bs[2]) THEN 2 ELSE 0
        ELSE IF b1 >= 224 /\ b1 <= 239
             THEN IF /\ n >= 3
                     /\ IsCont(bs[2])
                     /\ IsCont(bs[3])
                     /\ (b1 = 224 => bs[2] >= 160)
                     /\ (b1 = 237 => bs[2] <= 159)
                  THEN 3 ELSE 0
        ELSE IF b1 >= 240 /\ b1 <= 244
             THEN IF /\ n >= 4
                     /\ IsCont(bs[2])
                     /\ IsCont(bs[3])
                     /\ IsCont(bs[4])
                     /\ (b1 = 240 => bs[2] >= 144)
                     /\ (b1 = 244 => bs[2] <= 143)
                  THEN 4 ELSE 0
        ELSE 0

Utf8CodePoint(bs, k) ==
    IF k = 1 THEN bs[1]
    ELSE IF k = 2 THEN (bs[1] - 192) * 64 + (bs[2] - 128)
    ELSE IF k = 3
         THEN (bs[1] - 224) * 4096 + (bs[2] - 128) * 64 + (bs[3] - 128)
    ELSE (bs[1] - 240) * 262144 + (bs[2] - 128) * 4096
         + (bs[3] - 128) * 64 + (bs[4] - 128)

\* bytes.decode("utf-8"): [ok |-> FALSE] stands for UnicodeDecodeError.
RECURSIVE Utf8Decode(_)
Utf8Decode(bs) ==
    IF bs = <<>> THEN [ok |-> TRUE, s |-> <<>>]
    ELSE LET k == Utf8SeqLen(bs)
         IN  IF k = 0 THEN [ok |-> FALSE, s |-> <<>>]
             ELSE LET rest == Utf8Decode(SubSeq(bs, k + 1, Len(bs)))
                  IN  IF rest.ok
                      THEN [ok |-> TRUE, s |-> <<Utf8CodePoint(bs, k)>> \o rest.s]
                      ELSE [ok |-> FALSE, s |-> <<>>]

\* bytes.decode("latin-1"): every byte is the code point of the same number.
Latin1Decode(bs) == bs

\* str.encode("latin-1"): code points above U+00FF raise UnicodeEncodeError.
Latin1Encode(s) ==
    IF \A i \in 1..Len(s) : s[i] < 256
    THEN [ok |-> TRUE, b |-> s]
    ELSE [ok |-> FALSE, b |-> <<>>]

\* The code points cp1252 maps to the bytes 0x80..0x9F (0x81, 0x8D, 0x8F,
\* 0x90 and 0x9D are undefined in Python's codec).
Cp1252High ==
    {<<8364, 128>>, <<8218, 130>>, <<402, 131>>, <<8222, 132>>, <<8230, 133>>,
     <<8224, 134>>, <<8225, 135>>, <<710, 136>>, <<8240, 137>>, <<352, 138>>,
     <<8249, 139>>, <<338, 140>>, <<381, 142>>, <<8216, 145>>, <<8217, 146>>,
     <<8220, 147>>, <<8221, 148>>, <<8226, 149>>, <<8211, 150>>, <<8212, 151>>,
     <<732, 152>>, <<8482, 153>>, <<353, 154>>, <<8250, 155>>, <<339, 156>>,
     <<382, 158>>, <<376, 159>>}

Cp1252Encodable(c) ==
    \/ c < 128
    \/ (c >= 160 /\ c <= 255)
    \/ \E p \in Cp1252High : p[1] = c

Cp1252Byte(c) ==
    IF c < 128 \/ (c >= 160 /\ c <= 255) THEN c
    ELSE (CHOOSE p \in Cp1252High : p[1] = c)[2]

\* str.encode("cp1252")
Cp1252Encode(s) ==
    IF \A i \in 1..Len(s) : Cp1252Encodable(s[i])
    THEN [ok |-> TRUE, b |-> [i \in 1..Len(s) |-> Cp1252Byte(s[i])]]
    ELSE [ok |-> FALSE, b |-> <<>>]

(***************************************************************************)
(* parser.py : mojibake repair                                             *)
(***************************************************************************)
\* U+00C3, U+00C5, U+00C2, U+00D0, U+00D1, U+00E2, U+201A, U+FFFD
_MOJIBAKE_MARKERS == {195, 197, 194, 208, 209, 226, 8218, 65533}

\* sum(text.count(marker) for marker in _MOJIBAKE_MARKERS)
MarkerScore(text) == CountIn(text, _MOJIBAKE_MARKERS)

\* text.encode(encoding).decode("utf-8"); ok = FALSE stands for UnicodeError
Recode(text, encoding) ==
    LET enc == IF encoding = "latin-1" THEN Latin1Encode(text)
               ELSE Cp1252Encode(text)
    IN  IF enc.ok THEN Utf8Decode(enc.b) ELSE [ok |-> FALSE, s |-> <<>>]

\* One round of the loop over ("latin-1", "cp1252"): cur = [best, best_score].
FixStep(cur, text, encoding) ==
    LET cand == Recode(text, encoding)
    IN  IF cand.ok /\ MarkerScore(cand.s) < cur.best_score
        THEN [best |-> cand.s, best_score |-> MarkerScore(cand.s)]
        ELSE cur

maybe_fix_mojibake(text) ==
    IF MarkerScore(text) = 0 THEN text
    ELSE LET start == [best |-> text, best_score |-> MarkerScore(text)]
             r1    == FixStep(start, text, "latin-1")
             r2    == FixStep(r1, text, "cp1252")
         IN  r2.best

(***************************************************************************)
(* parser.py : recognising system messages                                 *)
(***************************************************************************)
\* str.casefold() of one code point (ASCII, Latin-1, Latin Extended-A).
CaseFoldChar(c) ==
    IF c >= 65 /\ c <= 90 THEN <<c + 32>>
    ELSE IF c >= 192 /\ c <= 222 /\ c # 215 THEN <<c + 32>>
    ELSE IF c = 223 THEN <<115, 115>>
    ELSE IF c = 181 THEN <<956>>
    ELSE IF c = 304 THEN <<105, 775>>
    ELSE IF c = 329 THEN <<700, 110>>
    ELSE IF c = 376 THEN <<255>>
    ELSE IF c = 383 THEN <<115>>
    ELSE IF /\ c % 2 = 0
            /\ \/ (c >= 256 /\ c <= 310)
               \/ (c >= 330 /\ c <= 374)
         THEN <<c + 1>>
    ELSE IF /\ c % 2 = 1
            /\ \/ (c >= 313 /\ c <= 327)
               \/ (c >= 377 /\ c <= 381)
         THEN <<c + 1>>
    ELSE <<c>>

\* _DIACRITIC_MAP
_DIACRITIC_MAP(c) ==
    IF c = 261 THEN 97
    ELSE IF c = 263 THEN 99
    ELSE IF c = 281 THEN 101
    ELSE IF c = 322 THEN 108
    ELSE IF c = 324 THEN 110
    ELSE IF c = 243 THEN 111
    ELSE IF c = 347 THEN 115
    ELSE IF c = 380 THEN 122
    ELSE IF c = 378 THEN 122
    ELSE c

\* NFKD decompositions of U+0100..U+017F with the combining marks dropped
\* (code points absent from the table decompose to themselves).
NfkdLatinExtA ==
    {<<256, <<65>>>>, <<257, <<97>>>>, <<258, <<65>>>>, <<259, <<97>>>>,
     <<260, <<65>>>>, <<261, <<97>>>>, <<262, <<67>>>>, <<263, <<99>>>>,
     <<264, <<67>>>>, <<265, <<99>>>>, <<266, <<67>>>>, <<267, <<99>>>>,
     <<268, <<67>>>>, <<269, <<99>>>>, <<270, <<68>>>>, <<271, <<100>>>>,
     <<274, <<69>>>>, <<275, <<101>>>>, <<276, <<69>>>>, <<277, <<101>>>>,
     <<278, <<69>>>>, <<279, <<101>>>>, <<280, <<69>>>>, <<281, <<101>>>>,
     <<282, <<69>>>>, <<283, <<101>>>>, <<284, <<71>>>>, <<285, <<103>>>>,
     <<286, <<71>>>>, <<287, <<103>>>>, <<288, <<71>>>>, <<289, <<103>>>>,
     <<290, <<71>>>>, <<291, <<103>>>>, <<292, <<72>>>>, <<293, <<104>>>>,
     <<296, <<73>>>>, <<297, <<105>>>>, <<298, <<73>>>>, <<299, <<105>>>>,
     <<300, <<73>>>>, <<301, <<105>>>>, <<302, <<73>>>>, <<303, <<105>>>>,
     <<304, <<73>>>>, <<306, <<73, 74>>>>, <<307, <<105, 106>>>>,
     <<308, <<74>>>>, <<309, <<106>>>>, <<310, <<75>>>>, <<311, <<107>>>>,
     <<313, <<76>>>>, <<314, <<108>>>>, <<315, <<76>>>>, <<316, <<108>>>>,
     <<317, <<76>>>>, <<318, <<108>>>>, <<319, <<76, 183>>>>,
     <<320, <<108, 183>>>>, <<323, <<78>>>>, <<324, <<110>>>>,
     <<325, <<78>>>>, <<326, <<110>>>>, <<327, <<78>>>>, <<328, <<110>>>>,
     <<329, <<700, 110>>>>, <<332, <<79>>>>, <<333, <<111>>>>,
     <<334, <<79>>>>, <<335, <<111>>>>, <<336, <<79>>>>, <<337, <<111>>>>,
     <<340, <<82>>>>, <<341, <<114>>>>, <<342, <<82>>>>, <<343, <<114>>>>,
     <<344, <<82>>>>, <<345, <<114>>>>, <<346, <<83>>>>, <<347, <<115>>>>,
     <<348, <<83>>>>, <<349, <<115>>>>, <<350, <<83>>>>, <<351, <<115>>>>,
     <<352, <<83>>>>, <<353, <<115>>>>, <<354, <<84>>>>, <<355, <<116>>>>,
     <<356, <<84>>>>, <<357, <<116>>>>, <<360, <<85>>>>, <<361, <<117>>>>,
     <<362, <<85>>>>, <<363, <<117>>>>, <<364, <<85>>>>, <<365, <<117>>>>,
     <<366, <<85>>>>, <<367, <<117>>>>, <<368, <<85>>>>, <<369, <<117>>>>,
     <<370, <<85>>>>, <<371, <<117>>>>, <<372, <<87>>>>, <<373, <<119>>>>,
     <<374, <<89>>>>, <<375, <<121>>>>, <<376, <<89>>>>, <<377, <<90>>>>,
     <<378, <<122>>>>, <<379, <<90>>>>, <<380, <<122>>>>, <<381, <<90>>>>,
     <<382, <<122>>>>, <<383, <<115>>>>}

\* unicodedata.normalize("NFKD", c) without the combining marks, for the
\* code points below U+0180 and the combining marks U+0300..U+036F.
NfkdBase(c) ==
    IF c >= 768 /\ c <= 879 THEN <<>>
    ELSE IF \E p \in NfkdLatinExtA : p[1] = c
         THEN (CHOOSE p \in NfkdLatinExtA : p[1] = c)[2]
    ELSE IF c = 160 THEN <<32>>
    ELSE IF c = 168 \/ c = 175 \/ c = 180 \/ c = 184 THEN <<32>>
    ELSE IF c = 170 THEN <<97>>
    ELSE IF c = 186 THEN <<111>>
    ELSE IF c = 178 THEN <<50>>
    ELSE IF c = 179 THEN <<51>>
    ELSE IF c = 185 THEN <<49>>
    ELSE IF c = 181 THEN <<956>>
    ELSE IF c = 188 THEN <<49, 8260, 52>>
    ELSE IF c = 189 THEN <<49, 8260, 50>>
    ELSE IF c = 190 THEN <<51, 8260, 52>>
    ELSE IF c >= 192 /\ c <= 197 THEN <<65>>
    ELSE IF c = 199 THEN <<67>>
    ELSE IF c >= 200 /\ c <= 203 THEN <<69>>
    ELSE IF c >= 204 /\ c <= 207 THEN <<73>>
    ELSE IF c = 209 THEN <<78>>
    ELSE IF c >= 210 /\ c <= 214 THEN <<79>>
    ELSE IF c >= 217 /\ c <= 220 THEN <<85>>
    ELSE IF c = 221 THEN <<89>>
    ELSE IF c >= 224 /\ c <= 229 THEN <<97>>
    ELSE IF c = 231 THEN <<99>>
    ELSE IF c >= 232 /\ c <= 235 THEN <<101>>
    ELSE IF c >= 236 /\ c <= 239 THEN <<105>>
    ELSE IF c = 241 THEN <<110>>
    ELSE IF c >= 242 /\ c <= 246 THEN <<111>>
    ELSE IF c >= 249 /\ c <= 252 THEN <<117>>
    ELSE IF c = 253 \/ c = 255 THEN <<121>>
    ELSE <<c>>

\* text.casefold()
RECURSIVE CaseFold(_)
CaseFold(s) ==
    IF s = <<>> THEN <<>> ELSE CaseFoldChar(Head(s)) \o CaseFold(Tail(s))

\* "".join(ch for ch in normalize("NFKD", text) if not combining(ch))
RECURSIVE NfkdStrip(_)
NfkdStrip(s) ==
    IF s = <<>> THEN <<>> ELSE NfkdBase(Head(s)) \o NfkdStrip(Tail(s))

normalize_for_match(text) ==
    LET folded     == CaseFold(text)
        translated == [i \in 1..Len(folded) |-> _DIACRITIC_MAP(folded[i])]
    IN  NfkdStrip(translated)

S_motyw == <<109, 111, 116, 121, 119>>
S_nick == <<110, 105, 99, 107>>

\* _SYSTEM_NICK_MARKERS = ("ustawil", "ustawila", "ustawiono")
_SYSTEM_NICK_MARKERS ==
    {<<117, 115, 116, 97, 119, 105, 108>>,
     <<117, 115, 116, 97, 119, 105, 108, 97>>,
     <<117, 115, 116, 97, 119, 105, 111, 110, 111>>}

is_ignored_system_message(content) ==
    LET normalized == normalize_for_match(content)
    IN  IF Contains(normalized, S_motyw) THEN TRUE
        ELSE IF ~Contains(normalized, S_nick) THEN FALSE
        ELSE \E marker \in _SYSTEM_NICK_MARKERS : Contains(normalized, marker)

\* str.isspace() of one code point
IsSpace(c) ==
    \/ (c >= 9 /\ c <= 13)
    \/ (c >= 28 /\ c <= 32)
    \/ c \in {133, 160, 5760, 8232, 8233, 8239, 8287, 12288}
    \/ (c >= 8192 /\ c <= 8202)

\* str.strip()
RECURSIVE LStrip(_)
LStrip(s) == IF s # <<>> /\ IsSpace(Head(s)) THEN LStrip(Tail(s)) ELSE s

RECURSIVE RStrip(_)
RStrip(s) ==
    IF s # <<>> /\ IsSpace(s[Len(s)]) THEN RStrip(SubSeq(s, 1, Len(s) - 1)) ELSE s

Strip(s) == RStrip(LStrip(s))

(***************************************************************************)
(* parser.py : load_messages                                               *)
(*                                                                         *)
(* A JSON value is a record [t, n, s]: t its type, n its number (the       *)
(* length of a list, the integer part of a finite float), s its text.      *)
(* "absent" stands for a key the object does not have (dict.get gives      *)
(* None for it, as for a JSON null).                                       *)
(***************************************************************************)
JVal(t, n, s) == [t |-> t, n |-> n, s |-> s]
Absent == JVal("absent", 0, <<>>)
Null == JVal("null", 0, <<>>)
JInt(n) == JVal("int", n, <<>>)
JBool(n) == JVal("bool", n, <<>>)
JFloat(n) == JVal("float", n, <<>>)
JInf == JVal("inf", 0, <<>>)
JNaN == JVal("nan", 0, <<>>)
JStr(s) == JVal("str", 0, s)
JList(n) == JVal("list", n, <<>>)
JDict(n) == JVal("dict", n, <<>>)

\* v is None
IsNone(v) == v.t \in {"absent", "null"}

\* Python truth value of a JSON value (the "or" idiom)
Truthy(v) ==
    IF v.t \in {"absent", "null"} THEN FALSE
    ELSE IF v.t \in {"int", "bool", "float", "list", "dict"} THEN v.n # 0
    ELSE IF v.t = "str" THEN v.s # <<>>
    ELSE TRUE

\* value = entry.get(primary); if value is None: value = entry.get(alias)
GetFalsyAlias(primary, alias) == IF Truthy(primary) THEN primary ELSE alias
GetWithAlias(primary, alias) == IF IsNone(primary) THEN alias ELSE primary

\* _count_list
_count_list(value) == IF value.t = "list" THEN value.n ELSE 0

_PHOTO_EXTS == {".jpg", ".jpeg", ".png", ".webp", ".heic", ".heif", ".bmp", ".tif", ".tiff"}
_VIDEO_EXTS == {".mp4", ".mov", ".m4v", ".avi", ".mkv", ".webm", ".3gp"}
_AUDIO_EXTS == {".mp3", ".m4a", ".aac", ".ogg", ".opus", ".wav", ".flac"}

\* Path(uri.lower()).suffix for the URIs of the model
LoweredSuffix(uri) ==
    IF uri = "a.jpg" THEN ".jpg"
    ELSE IF uri = "B.MP4" THEN ".mp4"
    ELSE IF uri = "c.ogg" THEN ".ogg"
    ELSE IF uri = "d.txt" THEN ".txt"
    ELSE ""

\* _classify_uri: <<photos, videos, audios>>
_classify_uri(uri) ==
    LET suffix == LoweredSuffix(uri)
    IN  IF suffix \in _PHOTO_EXTS THEN <<1, 0, 0>>
        ELSE IF suffix \in _VIDEO_EXTS THEN <<0, 1, 0>>
        ELSE IF suffix \in _AUDIO_EXTS THEN <<0, 0, 1>>
        ELSE <<0, 0, 0>>

\* An item of a "media" list: t = "dict" with the values under "uri" and
\* "URI", or t = "str" with the string in uri, or another JSON value.
\* "<none>" is a missing or null key, "<int>" a value that is not a string.
MediaItem(t, uri, URI) == [t |-> t, uri |-> uri, URI |-> URI]

ItemUri(item) ==
    IF item.t = "dict"
    THEN IF item.uri \in {"<none>", ""} THEN item.URI ELSE item.uri
    ELSE IF item.t = "str" THEN item.uri
    ELSE "<int>"

RECURSIVE SumTriples(_)
SumTriples(ts) ==
    IF ts = <<>> THEN <<0, 0, 0>>
    ELSE LET r == SumTriples(Tail(ts))
             h == Head(ts)
         IN  <<h[1] + r[1], h[2] + r[2], h[3] + r[3]>>

\* _count_media_items; media = [t, items]
_count_media_items(media) ==
    IF media.t # "list" THEN <<0, 0, 0>>
    ELSE SumTriples([i \in 1..Len(media.items) |->
            LET uri == ItemUri(media.items[i])
            IN  IF uri \in {"<none>", "<int>"} THEN <<0, 0, 0>>
                ELSE _classify_uri(uri)])

NoMedia == [t |-> "absent", items |-> <<>>]

\* int(str): surrounding whitespace, an optional sign, decimal digits
IsDigits(s) == s # <<>> /\ \A i \in 1..Len(s) : s[i] >= 48 /\ s[i] <= 57

RECURSIVE DigitsValue(_)
DigitsValue(s) ==
    IF s = <<>> THEN 0
    ELSE DigitsValue(SubSeq(s, 1, Len(s) - 1)) * 10 + (s[Len(s)] - 48)

IntOfStr(s) ==
    LET body   == Strip(s)
        signed == body # <<>> /\ body[1] \in {43, 45}
        digits == IF signed THEN Tail(body) ELSE body
    IN  IF IsDigits(digits)
        THEN [r |-> "ok",
              v |-> IF signed /\ body[1] = 45 THEN 0 - DigitsValue(digits)
                    ELSE DigitsValue(digits)]
        ELSE [r |-> "ValueError", v |-> 0]

\* isinstance(timestamp_ms, int) / int(timestamp_ms): r is "ok" or the
\* exception int() raises.
TimestampValue(v) ==
    IF v.t \in {"int", "bool"} THEN [r |-> "ok", v |-> v.n]
    ELSE IF v.t = "float" THEN [r |-> "ok", v |-> v.n]
    ELSE IF v.t = "str" THEN IntOfStr(v.s)
    ELSE IF v.t = "nan" THEN [r |-> "ValueError", v |-> 0]
    ELSE IF v.t = "inf" THEN [r |-> "OverflowError", v |-> 0]
    ELSE [r |-> "TypeError", v |-> 0]

S_Unknown == <<85, 110, 107, 110, 111, 119, 110>>

NoText == [t |-> "none", s |-> <<>>]
Text(s) == [t |-> "str", s |-> s]

NoMessage ==
    [sender_name |-> <<>>, timestamp_ms |-> 0, content |-> NoText,
     msg_type |-> NoText, photo_count |-> 0, video_count |-> 0,
     audio_count |-> 0, gif_count |-> 0, file_count |-> 0]

\* The body of the loop of load_messages for one entry: what happens to it
\* (fate), at which statement (why), and the Message appended when it is kept.
ProcessEntry(entry) ==
    IF ~entry.obj
    THEN [fate |-> "skipped", why |-> "not_object", msg |-> NoMessage]
    ELSE
    LET timestamp_ms == GetWithAlias(entry.timestamp_ms, entry.timestamp)
        ts           == TimestampValue(timestamp_ms)
        rawSender    == GetWithAlias(entry.sender_name, entry.senderName)
        sender       == IF rawSender.t # "str" \/ Strip(rawSender.s) = <<>>
                        THEN S_Unknown
                        ELSE maybe_fix_mojibake(rawSender.s)
        rawContent   == GetWithAlias(entry.content, entry.text)
        content      == IF rawContent.t # "str" THEN NoText
                        ELSE Text(maybe_fix_mojibake(rawContent.s))
        media        == _count_media_items(entry.media)
    IN  IF ts.r \in {"TypeError", "ValueError"}
        THEN [fate |-> "skipped", why |-> "timestamp", msg |-> NoMessage]
        ELSE IF ts.r # "ok"
        THEN [fate |-> "raised", why |-> ts.r, msg |-> NoMessage]
        ELSE IF content.t = "str" /\ is_ignored_system_message(content.s)
        THEN [fate |-> "skipped", why |-> "system", msg |-> NoMessage]
        ELSE [fate |-> "kept", why |-> "",
              msg |-> [sender_name |-> sender,
                       timestamp_ms |-> ts.v,
                       content |-> content,
                       msg_type |-> IF entry.type.t = "str"
                                    THEN Text(entry.type.s) ELSE NoText,
                       photo_count |-> _count_list(entry.photos) + media[1],
                       video_count |-> _count_list(entry.videos) + media[2],
                       audio_count |-> _count_list(entry.audio_files)
                                       + _count_list(entry.audioFiles) + media[3],
                       gif_count |-> _count_list(entry.gifs),
                       file_count |-> _count_list(entry.files)]]

(***************************************************************************)
(* text.py : tokenisation                                                  *)
(*                                                                         *)
(* The character classes are those of Python for the code points below     *)
(* U+0180; every other code point the model uses (combining marks, emoji,  *)
(* typographic punctuation) is neither a word character nor white space,   *)
(* except U+02BC and U+03BC, which are letters.                            *)
(***************************************************************************)
\* STOPWORDS, each word spelled as its code points
STOPWORDS ==
    {<<97>>, <<97, 110>>, <<97, 110, 100>>, <<97, 114, 101>>, <<97, 115>>,
     <<97, 116>>, <<98, 101>>, <<98, 101, 101, 110>>, <<98, 117, 116>>,
     <<98, 121>>, <<100, 111>>, <<102, 111, 114>>, <<102, 114, 111, 109>>,
     <<104, 97, 100>>, <<104, 97, 115>>, <<104, 97, 118, 101>>, <<104, 101>>,
     <<104, 101, 114>>, <<104, 105, 115>>, <<104, 111, 119>>, <<105>>,
     <<105, 102>>, <<105, 110>>, <<105, 115>>, <<105, 116>>, <<105, 116, 115>>,
     <<109, 101>>, <<109, 121>>, <<110, 111>>, <<110, 111, 116>>, <<111, 102>>,
     <<111, 110>>, <<111, 114>>, <<111, 117, 114>>, <<111, 117, 116>>,
     <<115, 104, 101>>, <<115, 111>>, <<116, 104, 97, 116>>, <<116, 104, 101>>,
     <<116, 104, 101, 105, 114>>, <<116, 104, 101, 109>>, <<116, 104, 101, 110>>,
     <<116, 104, 101, 114, 101>>, <<116, 104, 101, 121>>, <<116, 104, 105, 115>>,
     <<116, 111>>, <<117, 112>>, <<117, 115>>, <<119, 97, 115>>, <<119, 101>>,
     <<119, 101, 114, 101>>, <<119, 104, 97, 116>>, <<119, 104, 101, 110>>,
     <<119, 104, 101, 114, 101>>, <<119, 104, 111>>, <<119, 104, 121>>,
     <<119, 105, 116, 104>>, <<121, 111, 117>>, <<121, 111, 117, 114>>,
     <<119>>, <<122>>, <<110, 97>>, <<112, 111>>, <<111, 100>>, <<122, 97>>,
     <<112, 111, 100>>, <<110, 97, 100>>, <<112, 114, 122, 121>>, <<98, 101, 122>>,
     <<100, 108, 97>>, <<106, 97, 107>>, <<110, 105, 101>>, <<116, 97, 107>>,
     <<122, 101>>, <<99, 111>>, <<99, 122, 121>>, <<106, 97>>, <<116, 121>>,
     <<111, 110, 97>>, <<111, 110, 111>>, <<119, 121>>, <<111, 110, 105>>,
     <<111, 110, 101>>, <<106, 101, 115, 116>>, <<115, 97>>, <<98, 121, 99>>,
     <<115, 105, 101>>, <<116, 101, 122>>, <<97, 108, 98, 111>>, <<111>>,
     <<117>>, <<97, 108, 101>>, <<101, 106>>, <<97, 104, 97>>, <<109, 104, 109>>,
     <<98, 111>>, <<116, 101, 110>>, <<116, 97>>, <<116, 101>>, <<116, 117>>,
     <<116, 97, 109>>, <<106, 117, 122>>, <<106, 101, 115, 122, 99, 122, 101>>,
     <<110, 105, 99>>, <<119, 115, 122, 121, 115, 116, 107, 111>>, <<98, 97, 114, 100, 122, 111>>,
     <<116, 121, 108, 107, 111>>, <<119, 105, 101, 99>>, <<115, 107, 111, 114, 111>>,
     <<99, 122, 121, 108, 105>>, <<111, 114, 97, 122>>, <<108, 117, 98>>,
     <<98, 97, 100, 122>>, <<111, 107>>, <<100, 111, 98, 114, 97>>,
     <<119, 108, 97, 115, 110, 105, 101>>, <<103, 100, 122, 105, 101>>,
     <<107, 105, 101, 100, 121>>, <<107, 116, 111>>, <<105, 108, 101>>,
     <<99, 122, 101, 109, 117>>, <<100, 108, 97, 99, 122, 101, 103, 111>>,
     <<99, 104, 111, 99>>, <<109, 105, 109, 111>>, <<108, 101, 99, 122>>,
     <<97, 98, 121>>, <<122, 101, 98, 121>>, <<103, 100, 121>>, <<103, 100, 121, 98, 121>>,
     <<106, 101, 115, 108, 105>>, <<106, 101, 122, 101, 108, 105>>,
     <<99, 104, 121, 98, 97>>, <<109, 111, 122, 101>>, <<119, 105, 101, 109>>,
     <<115, 111, 98, 105, 101>>, <<109, 105>>, <<109, 117>>, <<106, 101, 106>>,
     <<110, 97, 109>>, <<119, 97, 109>>, <<105, 109>>, <<103, 111>>,
     <<110, 97, 115>>, <<105, 99, 104>>, <<99, 105, 101>>, <<109, 110, 105, 101>>,
     <<116, 111, 98, 105, 101>>, <<105, 111>>, <<105, 105>>, <<105, 105, 105>>,
     <<105, 118>>, <<118, 105>>, <<118, 105, 105>>, <<118, 105, 105, 105>>,
     <<105, 120>>, <<120, 120>>}

\* VOWELS = set("aeiouy")
VOWELS == {97, 101, 105, 111, 117, 121}

\* str.lower() of one code point
LowerChar(c) == IF c \in {181, 223, 329, 383} THEN <<c>> ELSE CaseFoldChar(c)

\* text.lower()
RECURSIVE Lower(_)
Lower(s) == IF s = <<>> THEN <<>> ELSE LowerChar(Head(s)) \o Lower(Tail(s))

\* str.isalpha() of one code point
IsAlpha(c) ==
    \/ (c >= 65 /\ c <= 90) \/ (c >= 97 /\ c <= 122)
    \/ c \in {170, 181, 186, 700, 956}
    \/ (c >= 192 /\ c <= 383 /\ c # 215 /\ c # 247)

\* str.isdigit() of one code point
IsDigit(c) == (c >= 48 /\ c <= 57) \/ c \in {178, 179, 185}

\* \w of a Unicode pattern: alphanumeric or underscore
IsWordChar(c) == IsAlpha(c) \/ IsDigit(c) \/ c = 95 \/ (c >= 188 /\ c <= 190)

\* one letter of URL_RE under re.IGNORECASE: the letter, its capital, and
\* for "s" also U+017F
MatchLetter(c, p) ==
    \/ c = p
    \/ (p >= 97 /\ p <= 122 /\ c = p - 32)
    \/ (p = 115 /\ c = 383)

\* the literal pat matches text at position i
MatchesAt(text, i, pat) ==
    /\ i + Len(pat) - 1 <= Len(text)
    /\ \A k \in 1..Len(pat) : MatchLetter(text[i + k - 1], pat[k])

\* \S+ at position i: the length of the run of non-space characters
RECURSIVE NonSpaceRun(_, _)
NonSpaceRun(text, i) ==
    IF i > Len(text) \/ IsSpace(text[i]) THEN 0 ELSE 1 + NonSpaceRun(text, i + 1)

S_https == <<104, 116, 116, 112, 115, 58, 47, 47>>
S_http == <<104, 116, 116, 112, 58, 47, 47>>
S_www == <<119, 119, 119, 46>>

\* URL_RE = https?://\S+|www\.\S+ : the length of the match that starts at
\* position i, 0 when there is none
UrlMatchLen(text, i) ==
    LET try(pat) == IF /\ MatchesAt(text, i, pat)
                       /\ NonSpaceRun(text, i + Len(pat)) >= 1
                    THEN Len(pat) + NonSpaceRun(text, i + Len(pat))
                    ELSE 0
    IN  IF try(S_https) > 0 THEN try(S_https)
        ELSE IF try(S_http) > 0 THEN try(S_http)
        ELSE try(S_www)

\* URL_RE.sub(" ", text)
RECURSIVE UrlSubFrom(_, _)
UrlSubFrom(text, i) ==
    IF i > Len(text) THEN <<>>
    ELSE LET n == UrlMatchLen(text, i)
         IN  IF n > 0 THEN <<32>> \o UrlSubFrom(text, i + n)
             ELSE <<text[i]>> \o UrlSubFrom(text, i + 1)

\* text.replace("_", " ")
ReplaceUnderscores(text) ==
    [i \in 1..Len(text) |-> IF text[i] = 95 THEN 32 ELSE text[i]]

\* PUNCT_RE = [^\w\s] ; PUNCT_RE.sub(" ", text)
PunctSub(text) ==
    [i \in 1..Len(text) |->
        IF ~IsWordChar(text[i]) /\ ~IsSpace(text[i]) THEN 32 ELSE text[i]]

\* SPACES_RE = \s+ ; SPACES_RE.sub(" ", text)
RECURSIVE SpacesSub(_)
SpacesSub(text) ==
    IF text = <<>> THEN <<>>
    ELSE IF IsSpace(Head(text))
    THEN <<32>> \o SpacesSub(LStrip(text))
    ELSE <<Head(text)>> \o SpacesSub(Tail(text))

\* text.split(" "): the pieces between single spaces, empty pieces included
RECURSIVE SplitOnSpace(_, _)
SplitOnSpace(text, piece) ==
    IF text = <<>> THEN <<piece>>
    ELSE IF Head(text) = 32
    THEN <<piece>> \o SplitOnSpace(Tail(text), <<>>)
    ELSE SplitOnSpace(Tail(text), Append(piece, Head(text)))

\* the four substitutions and the strip() that tokenize, tokenize_raw and
\* sentiment_tokenize start with
CleanText(text) ==
    Strip(SpacesSub(PunctSub(ReplaceUnderscores(UrlSubFrom(Lower(text), 1)))))

\* token.isdigit()
AllDigits(token) == token # <<>> /\ \A i \in 1..Len(token) : IsDigit(token[i])

\* the filter of the loop of tokenize_raw
KeepRaw(token) == token # <<>>

\* the filters of the loop of tokenize
KeepToken(token) ==
    ~(Len(token) < 2) /\ ~AllDigits(token) /\ token \notin STOPWORDS

tokenize(text) ==
    LET cleaned == CleanText(text)
    IN  IF cleaned = <<>> THEN <<>>
        ELSE SelectSeq(SplitOnSpace(cleaned, <<>>), KeepToken)

tokenize_raw(text) ==
    LET cleaned == CleanText(text)
    IN  IF cleaned = <<>> THEN <<>>
        ELSE SelectSeq(SplitOnSpace(cleaned, <<>>), KeepRaw)

\* " ".join(tokens)
RECURSIVE JoinWithSpace(_)
JoinWithSpace(tokens) ==
    IF tokens = <<>> THEN <<>>
    ELSE IF Len(tokens) = 1 THEN tokens[1]
    ELSE tokens[1] \o <<32>> \o JoinWithSpace(Tail(tokens))

generate_ngrams(tokens, n) ==
    IF Len(tokens) < n THEN <<>>
    ELSE [i \in 1..(Len(tokens) - n + 1) |->
            JoinWithSpace(SubSeq(tokens, i, i + n - 1))]

\* phrase.split(): the pieces between runs of white space, none empty
RECURSIVE SplitWhitespace(_, _)
SplitWhitespace(text, piece) ==
    IF text = <<>> THEN (IF piece = <<>> THEN <<>> ELSE <<piece>>)
    ELSE IF IsSpace(Head(text))
    THEN (IF piece = <<>> THEN <<>> ELSE <<piece>>)
         \o SplitWhitespace(Tail(text), <<>>)
    ELSE SplitWhitespace(Tail(text), Append(piece, Head(text)))

\* normalize_token: the same three steps as normalize_for_match, with the
\* _DIACRITIC_MAP of text.py, which has the entries of the one of parser.py
normalize_token(token) ==
    LET folded     == CaseFold(token)
        translated == [i \in 1..Len(folded) |-> _DIACRITIC_MAP(folded[i])]
    IN  NfkdStrip(translated)

has_vowel(token) == \E i \in 1..Len(token) : token[i] \in VOWELS

has_consonant(token) ==
    \E i \in 1..Len(token) : IsAlpha(token[i]) /\ token[i] \notin VOWELS

is_noise_token(token) ==
    IF Len(token) <= 2 THEN TRUE
    ELSE IF Len(token) >= 3 /\ Cardinality({token[i] : i \in 1..Len(token)}) = 1
    THEN TRUE
    ELSE IF Len(token) <= 3 /\ (~has_vowel(token) \/ ~has_consonant(token))
    THEN TRUE
    ELSE FALSE

is_stop(w) == normalize_token(w) \in STOPWORDS

\* the test on 2-word phrases at the end of is_meaningful_phrase, and a
\* variant that looks at the first word
EndsWithStopFirstWord(words) == Len(words) = 2 /\ is_stop(words[1])
EndsWithStop(words) == Len(words) = 2 /\ is_stop(words[Len(words)])

is_meaningful_phrase(phrase) ==
    LET words          == SplitWhitespace(phrase, <<>>)
        normalized     == [i \in 1..Len(words) |-> normalize_token(words[i])]
        content_words  == SelectSeq(words, LAMBDA word : ~is_stop(word))
        content_tokens == [i \in 1..Len(content_words) |->
                             normalize_token(content_words[i])]
    IN  IF words = <<>> THEN FALSE
        ELSE IF \A i \in 1..Len(normalized) : Len(normalized[i]) <= 2 THEN FALSE
        ELSE IF ~(\E i \in 1..Len(words) : ~is_stop(words[i])) THEN FALSE
        ELSE IF content_tokens = <<>> THEN FALSE
        ELSE IF \A i \in 1..Len(content_tokens) : is_noise_token(content_tokens[i])
        THEN FALSE
        ELSE IF ~(\E i \in 1..Len(content_tokens) :
                     /\ Len(content_tokens[i]) >= 3
                     /\ has_vowel(content_tokens[i])
                     /\ has_consonant(content_tokens[i]))
        THEN FALSE
        ELSE IF EndsWithStop(words) THEN FALSE
        ELSE TRUE

(***************************************************************************)
(* metrics.py                                                              *)
(*                                                                         *)
(* A Python dict is a sequence of <<key, value>> pairs in insertion order. *)
(* Times are kept in milliseconds: a delta_seconds of the source is the    *)
(* model's delta divided by 1000, and the response bounds are given in     *)
(* milliseconds as well.  A timezone is a fixed offset in seconds.         *)
(***************************************************************************)
DictHas(d, k) == \E i \in 1..Len(d) : d[i][1] = k

DictGet(d, k, default) ==
    IF DictHas(d, k) THEN d[CHOOSE i \in 1..Len(d) : d[i][1] = k][2] ELSE default

DictPut(d, k, v) ==
    IF DictHas(d, k)
    THEN [i \in 1..Len(d) |-> IF d[i][1] = k THEN <<k, v>> ELSE d[i]]
    ELSE Append(d, <<k, v>>)

DictKeys(d) == [i \in 1..Len(d) |-> d[i][1]]

RECURSIVE SumSeq(_)
SumSeq(s) == IF s = <<>> THEN 0 ELSE Head(s) + SumSeq(Tail(s))

\* sum(d.values())
DictSum(d) == SumSeq([i \in 1..Len(d) |-> d[i][2]])

\* sorted(..., key=lambda msg: msg.timestamp_ms) is stable: a message goes
\* behind every message already placed whose timestamp is not larger.
InsertBeforeEqual(sorted, msg) ==
    LET k == Cardinality({i \in 1..Len(sorted) :
                            sorted[i].timestamp_ms < msg.timestamp_ms})
    IN  SubSeq(sorted, 1, k) \o <<msg>> \o SubSeq(sorted, k + 1, Len(sorted))
InsertByTimestamp(sorted, msg) ==
    LET k == Cardinality({i \in 1..Len(sorted) :
                            sorted[i].timestamp_ms <= msg.timestamp_ms})
    IN  SubSeq(sorted, 1, k) \o <<msg>> \o SubSeq(sorted, k + 1, Len(sorted))

RECURSIVE SortInto(_, _)
SortInto(sorted, rest) ==
    IF rest = <<>> THEN sorted
    ELSE SortInto(InsertByTimestamp(sorted, Head(rest)), Tail(rest))

sort_messages(messages) == SortInto(<<>>, messages)

\* dict(Counter(msg.sender_name for msg in messages))
RECURSIVE CountSenders(_, _)
CountSenders(d, rest) ==
    IF rest = <<>> THEN d
    ELSE LET name == Head(rest).sender_name
         IN  CountSenders(DictPut(d, name, DictGet(d, name, 0) + 1), Tail(rest))

message_counts(messages) == CountSenders(<<>>, messages)

\* sorted(counts.keys(), key=lambda name: counts[name], reverse=True):
\* a reversed sort is stable too, keys of equal count keep their dict order.
InsertByCountTiesReversed(counts, ranked, name) ==
    LET k == Cardinality({i \in 1..Len(ranked) :
                DictGet(counts, ranked[i], 0) > DictGet(counts, name, 0)})
    IN  SubSeq(ranked, 1, k) \o <<name>> \o SubSeq(ranked, k + 1, Len(ranked))
InsertByCount(counts, ranked, name) ==
    LET k == Cardinality({i \in 1..Len(ranked) :
                DictGet(counts, ranked[i], 0) >= DictGet(counts, name, 0)})
    IN  SubSeq(ranked, 1, k) \o <<name>> \o SubSeq(ranked, k + 1, Len(ranked))

RECURSIVE RankInto(_, _, _)
RankInto(counts, ranked, rest) ==
    IF rest = <<>> THEN ranked
    ELSE RankInto(counts, InsertByCount(counts, ranked, Head(rest)), Tail(rest))

RankParticipants(counts) == RankInto(counts, <<>>, DictKeys(counts))

\* not (delta_seconds < min_seconds or delta_seconds > max_seconds)
WithinBoundsExclusive(delta, min_ms, max_ms) == delta > min_ms /\ delta < max_ms
WithinBounds(delta, min_ms, max_ms) == ~(delta < min_ms \/ delta > max_ms)

\* response_time_deltas; deltas[current.sender_name].append(delta_seconds)
RECURSIVE DeltasFrom(_, _, _, _)
DeltasFrom(deltas, rest, min_ms, max_ms) ==
    IF Len(rest) < 2 THEN deltas
    ELSE LET prev    == rest[1]
             current == rest[2]
             delta   == current.timestamp_ms - prev.timestamp_ms
         IN  IF prev.sender_name = current.sender_name
             THEN DeltasFrom(deltas, Tail(rest), min_ms, max_ms)
             ELSE IF ~WithinBounds(delta, min_ms, max_ms)
             THEN DeltasFrom(deltas, Tail(rest), min_ms, max_ms)
             ELSE DeltasFrom(
                     DictPut(deltas, current.sender_name,
                             Append(DictGet(deltas, current.sender_name, <<>>),
                                    delta)),
                     Tail(rest), min_ms, max_ms)

response_time_deltas(messages, min_ms, max_ms) ==
    DeltasFrom(<<>>, sort_messages(messages), min_ms, max_ms)

\* datetime.fromtimestamp(msg.timestamp_ms / 1000.0, tz): seconds of local time
LocalSeconds(msg, tz) == (msg.timestamp_ms \div 1000) + tz

\* .hour
HourOf(msg, tz) == (LocalSeconds(msg, tz) \div 3600) % 24

\* .weekday(): Monday is 0, and 1970-01-01 was a Thursday
WeekdayOf(msg, tz) == ((LocalSeconds(msg, tz) \div 86400) + 3) % 7

\* counts = [0] * 24; for msg in messages: counts[hour] += 1
RECURSIVE HourlyInto(_, _, _)
HourlyInto(counts, rest, tz) ==
    IF rest = <<>> THEN counts
    ELSE LET hour == HourOf(Head(rest), tz)
         IN  HourlyInto([counts EXCEPT ![hour] = @ + 1], Tail(rest), tz)

hourly_counts_text_only(messages, tz) ==
    HourlyInto([h \in 0..23 |-> 0],
               SelectSeq(messages, LAMBDA m : m.content.t = "str"), tz)
hourly_counts(messages, tz) == HourlyInto([h \in 0..23 |-> 0], messages, tz)

\* counts = [0] * 7; for msg in messages: counts[weekday] += 1
RECURSIVE WeekdayInto(_, _, _)
WeekdayInto(counts, rest, tz) ==
    IF rest = <<>> THEN counts
    ELSE LET weekday == WeekdayOf(Head(rest), tz)
         IN  WeekdayInto([counts EXCEPT ![weekday] = @ + 1], Tail(rest), tz)

weekday_counts(messages, tz) == WeekdayInto([d \in 0..6 |-> 0], messages, tz)

\* A quotient of two whole numbers, kept exact: <<numerator, denominator>>
\* with a positive denominator.
RatLess(a, b) == a[1] * b[2] < b[1] * a[2]
RatEq(a, b) == a[1] * b[2] = b[1] * a[2]

RECURSIVE Gcd(_, _)
Gcd(a, b) == IF b = 0 THEN a ELSE Gcd(b, a % b)

Abs(n) == IF n < 0 THEN -n ELSE n

RatNorm(q) ==
    LET g == Gcd(Abs(q[1]), q[2])
    IN  IF q[1] = 0 THEN <<0, 1>> ELSE <<q[1] \div g, q[2] \div g>>

RatAdd(a, b) == RatNorm(<<a[1] * b[2] + b[1] * a[2], a[2] * b[2]>>)
RatMul(a, b) == RatNorm(<<a[1] * b[1], a[2] * b[2]>>)
RatNeg(a) == <<-a[1], a[2]>>
RatMax(a, b) == IF RatLess(a, b) THEN b ELSE a
RatMin(a, b) == IF RatLess(b, a) THEN b ELSE a

\* An optional number: None, or a quotient
NoQ == [t |-> "none", q |-> <<0, 1>>]
Q(n, d) == [t |-> "num", q |-> <<n, d>>]

\* max(d.items(), key=lambda item: item[1]) on whole-number values: the first
\* item, in the order of the dict, that no other item exceeds.
MaxItemIndexLast(d) ==
    CHOOSE i \in 1..Len(d) :
        /\ \A j \in 1..Len(d) : d[j][2] <= d[i][2]
        /\ \A j \in (i + 1)..Len(d) : d[j][2] < d[i][2]
MaxItemIndex(d) ==
    CHOOSE i \in 1..Len(d) :
        /\ \A j \in 1..Len(d) : d[j][2] <= d[i][2]
        /\ \A j \in 1..(i - 1) : d[j][2] < d[i][2]

\* the same on quotients
MaxRatioIndex(d) ==
    CHOOSE i \in 1..Len(d) :
        /\ \A j \in 1..Len(d) : ~RatLess(d[i][2], d[j][2])
        /\ \A j \in 1..(i - 1) : RatLess(d[j][2], d[i][2])

NoWinner == [t |-> "none", sender |-> <<>>, count |-> 0]
Winner(sender, count) == [t |-> "dict", sender |-> sender, count |-> count]

\* start_hour <= hour < end_hour
InNightWindowInclusive(hour, start_hour, end_hour) ==
    start_hour <= hour /\ hour <= end_hour
InNightWindow(hour, start_hour, end_hour) ==
    start_hour <= hour /\ hour < end_hour

\* night_stats: the loop over messages; state is <<per_sender, total>>
RECURSIVE NightInto(_, _, _, _, _, _)
NightInto(per_sender, total, rest, tz, start_hour, end_hour) ==
    IF rest = <<>> THEN <<per_sender, total>>
    ELSE LET msg  == Head(rest)
             hour == HourOf(msg, tz)
         IN  IF InNightWindow(hour, start_hour, end_hour)
             THEN NightInto(DictPut(per_sender, msg.sender_name,
                                    DictGet(per_sender, msg.sender_name, 0) + 1),
                            total + 1, Tail(rest), tz, start_hour, end_hour)
             ELSE NightInto(per_sender, total, Tail(rest), tz, start_hour, end_hour)

\* night_stats; pct is the quotient total * 100 / total_messages, and 0.0
\* (written 0 / 1) when total_messages is 0.  messages is a list, as it is
\* at the one call site (compute_metrics), so len(messages) is available.
night_stats(messages, tz, start_hour, end_hour) ==
    LET counted        == NightInto(<<>>, 0, messages, tz, start_hour, end_hour)
        per_sender     == counted[1]
        total          == counted[2]
        total_messages == Len(messages)
        winner         == IF per_sender # <<>>
                          THEN per_sender[MaxItemIndex(per_sender)]
                          ELSE <<>>
    IN  [count |-> total,
         pct |-> IF total_messages # 0 THEN <<total * 100, total_messages>>
                 ELSE <<0, 1>>,
         per_sender |-> per_sender,
         winner |-> IF winner # <<>> THEN Winner(winner[1], winner[2])
                    ELSE NoWinner]

\* fast_reply_stats: the loop over zip(sorted_messages, sorted_messages[1:]);
\* state is <<totals, fast>>
RECURSIVE FastInto(_, _, _, _)
FastInto(totals, fast, rest, max_ms) ==
    IF Len(rest) < 2 THEN <<totals, fast>>
    ELSE LET prev    == rest[1]
             current == rest[2]
             delta   == current.timestamp_ms - prev.timestamp_ms
             totals1 == DictPut(totals, prev.sender_name,
                                DictGet(totals, prev.sender_name, 0) + 1)
         IN  IF prev.sender_name = current.sender_name
             THEN FastInto(totals1, fast, Tail(rest), max_ms)
             ELSE IF delta <= max_ms
             THEN FastInto(totals1,
                           DictPut(fast, prev.sender_name,
                                   DictGet(fast, prev.sender_name, 0) + 1),
                           Tail(rest), max_ms)
             ELSE FastInto(totals1, fast, Tail(rest), max_ms)

NoFastWinner == [t |-> "none", sender |-> <<>>, pct |-> <<0, 1>>]

\* fast_reply_stats; a ratio is the quotient fast / totals, the pct of the
\* winner the quotient fast * 100 / totals
fast_reply_stats(messages, max_ms) ==
    LET sorted_messages == sort_messages(messages)
        counted == FastInto(<<>>, <<>>, sorted_messages, max_ms)
        totals  == counted[1]
        fast    == counted[2]
        ratios  == [i \in 1..Len(totals) |->
                      <<totals[i][1],
                        IF totals[i][2] # 0
                        THEN <<DictGet(fast, totals[i][1], 0), totals[i][2]>>
                        ELSE <<0, 1>>>>]
    IN  IF ratios # <<>>
        THEN LET winner == ratios[MaxRatioIndex(ratios)]
             IN  [winner |-> [t |-> "dict", sender |-> winner[1],
                              pct |-> <<winner[2][1] * 100, winner[2][2]>>],
                  ratios |-> ratios,
                  totals |-> totals,
                  fast_counts |-> fast]
        ELSE [winner |-> NoFastWinner, ratios |-> <<>>, totals |-> <<>>,
              fast_counts |-> <<>>]

(***************************************************************************)
(* metrics.py : percentile                                                 *)
(*                                                                         *)
(* The values are whole numbers and p a whole percentage; the result is    *)
(* kept as an exact quotient (the weight k - f is a number of hundredths,  *)
(* cancelled against 100), so the rounding of the float operations is left *)
(* out.                                                                    *)
(***************************************************************************)
InsertAscending(sorted, v) ==
    LET k == Cardinality({i \in 1..Len(sorted) : sorted[i] <= v})
    IN  SubSeq(sorted, 1, k) \o <<v>> \o SubSeq(sorted, k + 1, Len(sorted))

RECURSIVE SortValuesInto(_, _)
SortValuesInto(sorted, rest) ==
    IF rest = <<>> THEN sorted
    ELSE SortValuesInto(InsertAscending(sorted, Head(rest)), Tail(rest))

\* values_sorted = sorted(values)
AsGiven(values) == values
SortedValues(values) == SortValuesInto(<<>>, values)

percentile(values, p) ==
    IF values = <<>> THEN NoQ
    ELSE IF Len(values) = 1 THEN Q(values[1], 1)
    ELSE LET values_sorted == SortedValues(values)
             k100 == (Len(values_sorted) - 1) * p
             f    == k100 \div 100
             c    == IF k100 % 100 = 0 THEN f ELSE f + 1
             g    == Gcd(k100 - f * 100, 100)
         IN  IF f = c THEN Q(values_sorted[f + 1], 1)
             ELSE Q(values_sorted[f + 1] * (100 \div g)
                    + (values_sorted[c + 1] - values_sorted[f + 1])
                      * ((k100 - f * 100) \div g),
                    100 \div g)

(***************************************************************************)
(* Specification of the mojibake runs: a text is drawn, then either        *)
(* corrupted once (UTF-8 bytes read as Latin-1) and repaired, or repaired  *)
(* as it is, and the result is repaired a second time.                     *)
(***************************************************************************)
MaxTextLen == 4

\* a, o-acute, e-ogonek, A-tilde, U+0083, A-circumflex, superscript 3,
\* A-ring, single low-9 quote
TextAlphabet == {97, 243, 281, 195, 131, 194, 179, 197, 8218}

MojiStart ==
    /\ mj_pc = "input"
    /\ mj_s \in SeqsUpTo(TextAlphabet, MaxTextLen)
    /\ mj_t = <<>>
    /\ mj_fixed = <<>>
    /\ mj_fixed2 = <<>>

\* t = s.encode("utf-8").decode("latin-1")
Corrupt ==
    /\ mj_pc = "input"
    /\ mj_t' = Latin1Decode(Utf8Encode(mj_s))
    /\ mj_pc' = "corrupted"
    /\ UNCHANGED <<mj_s, mj_fixed, mj_fixed2>>
    /\ UNCHANGED notMoji

\* the text is handed to the repair as it is
TakeAsIs ==
    /\ mj_pc = "input"
    /\ mj_t' = mj_s
    /\ mj_pc' = "taken"
    /\ UNCHANGED <<mj_s, mj_fixed, mj_fixed2>>
    /\ UNCHANGED notMoji

Repair ==
    /\ mj_pc \in {"corrupted", "taken"}
    /\ mj_fixed' = maybe_fix_mojibake(mj_t)
    /\ mj_pc' = IF mj_pc = "corrupted" THEN "repaired" ELSE "fixed"
    /\ UNCHANGED <<mj_s, mj_t, mj_fixed2>>
    /\ UNCHANGED notMoji

RepairAgain ==
    /\ mj_pc \in {"repaired", "fixed"}
    /\ mj_fixed2' = maybe_fix_mojibake(mj_fixed)
    /\ mj_pc' = IF mj_pc = "repaired" THEN "repaired2" ELSE "fixed2"
    /\ UNCHANGED <<mj_s, mj_t, mj_fixed>>
    /\ UNCHANGED notMoji

MojiNext == Corrupt \/ TakeAsIs \/ Repair \/ RepairAgain

(***************************************************************************)
(* Specification of load_messages: the document is drawn at the start,     *)
(* the entries of its message list are drawn one by one as the loop        *)
(* consumes them.                                                          *)
(***************************************************************************)
MaxEntries == 2

S_Al == <<65, 108>>
S_Bo == <<66, 111>>
S_hi == <<104, 105>>
S_yo == <<121, 111>>
S_12 == <<49, 50>>
S_x == <<120>>
S_space == <<32>>
\* A-circumflex, no-break space: the UTF-8 bytes of a no-break space read as Latin-1
S_mojiNbsp == <<194, 160>>
\* "B", A-tilde, superscript 3: "Bo-acute" read as Latin-1
S_mojiBo == <<66, 195, 179>>
S_Motyw == <<77, 111, 116, 121, 119>>
\* "nick ustawi" + A-ring, U+0082: "nick ustawil-stroke" read as Latin-1
S_mojiNick == <<110, 105, 99, 107, 32, 117, 115, 116, 97, 119, 105, 197, 130>>
S_Generic == <<71>>

EmptyEntry ==
    [obj |-> TRUE, timestamp_ms |-> Absent, timestamp |-> Absent,
     sender_name |-> Absent, senderName |-> Absent, content |-> Absent,
     text |-> Absent, type |-> Absent, photos |-> Absent, videos |-> Absent,
     audio_files |-> Absent, audioFiles |-> Absent, gifs |-> Absent,
     files |-> Absent, media |-> NoMedia]

BaseEntry ==
    [EmptyEntry EXCEPT !.timestamp_ms = JInt(7), !.sender_name = JStr(S_Al),
                       !.content = JStr(S_hi)]

\* entries that are not JSON objects: a number, a string, null
NonObjectEntries ==
    {[EmptyEntry EXCEPT !.obj = FALSE, !.content = v] :
        v \in {JInt(5), JStr(S_hi), Null}}

TimestampEntries ==
    {[BaseEntry EXCEPT !.timestamp_ms = a, !.timestamp = b] :
        a \in {Absent, Null, JInt(7), JInt(0), JBool(1), JFloat(1), JInf, JNaN,
               JStr(S_12), JStr(S_x), JList(1)},
        b \in {Absent, JInt(9)}}

SenderEntries ==
    {[BaseEntry EXCEPT !.sender_name = a, !.senderName = b] :
        a \in {Absent, Null, JInt(5), JStr(<<>>), JStr(S_space), JStr(S_Al),
               JStr(S_mojiNbsp), JStr(S_mojiBo)},
        b \in {Absent, JStr(S_Bo)}}

ContentEntries ==
    {[BaseEntry EXCEPT !.content = a, !.text = b] :
        a \in {Absent, Null, JInt(3), JStr(<<>>), JStr(S_hi), JStr(S_Motyw),
               JStr(S_nick), JStr(S_mojiNick)},
        b \in {Absent, JStr(S_yo), JStr(S_motyw)}}

\* entries written with the alias names only
AliasEntries ==
    {[EmptyEntry EXCEPT !.timestamp = a, !.senderName = b, !.text = c] :
        a \in {JInt(9), JStr(S_12)},
        b \in {JStr(S_Bo)},
        c \in {JStr(<<>>), JStr(S_yo), JStr(S_motyw)}}

MediaEntries ==
    {[BaseEntry EXCEPT !.photos = JList(2), !.videos = JInt(3),
                       !.type = JStr(S_Generic)],
     [BaseEntry EXCEPT !.audio_files = JList(1), !.audioFiles = JList(1),
                       !.gifs = JList(1), !.files = JList(3), !.type = JInt(1)],
     [BaseEntry EXCEPT !.photos = JList(1),
                       !.media = [t |-> "list", items |->
                           <<MediaItem("dict", "a.jpg", "<none>"),
                             MediaItem("dict", "", "B.MP4"),
                             MediaItem("str", "c.ogg", "<none>"),
                             MediaItem("dict", "<int>", "a.jpg"),
                             MediaItem("int", "<none>", "<none>"),
                             MediaItem("str", "d.txt", "<none>")>>]],
     [BaseEntry EXCEPT !.media = [t |-> "dict", items |-> <<>>]]}

EntrySet ==
    NonObjectEntries \cup TimestampEntries \cup SenderEntries
    \cup ContentEntries \cup AliasEntries \cup MediaEntries

\* The documents: a top-level array, or an object with these values under
\* the keys "messages" and "Messages".
DataSet ==
    {[t |-> "array", messages |-> Absent, Messages |-> Absent]}
    \cup {[t |-> "object", messages |-> a, Messages |-> b] :
            a \in {Absent, Null, JInt(5), JDict(0)}
                  \cup {JList(n) : n \in 0..MaxEntries},
            b \in {Absent, JInt(5), JList(0), JList(1)}}

\* data.get("messages") or data.get("Messages")
MessagesData(data) ==
    IF Truthy(data.messages) THEN data.messages ELSE data.Messages

LoadStart ==
    /\ ld_pc = "start"
    /\ ld_data \in DataSet
    /\ ld_total = 0
    /\ ld_idx = 0
    /\ ld_messages = <<>>
    /\ ld_skipped = 0
    /\ ld_entry = EmptyEntry
    /\ ld_fate = "none"

\* data is not an object: data.get raises AttributeError
RaiseAttributeError ==
    /\ ld_pc = "start"
    /\ ld_data.t # "object"
    /\ ld_pc' = "attribute_error"
    /\ UNCHANGED <<ld_data, ld_total, ld_idx, ld_messages, ld_skipped,
                   ld_entry, ld_fate>>
    /\ UNCHANGED notLoad

\* raise ValueError("Input JSON must contain a 'messages' list.")
RaiseFormatError ==
    /\ ld_pc = "start"
    /\ ld_data.t = "object"
    /\ MessagesData(ld_data).t # "list"
    /\ ld_pc' = "format_error"
    /\ UNCHANGED <<ld_data, ld_total, ld_idx, ld_messages, ld_skipped,
                   ld_entry, ld_fate>>
    /\ UNCHANGED notLoad

EnterLoop ==
    /\ ld_pc = "start"
    /\ ld_data.t = "object"
    /\ MessagesData(ld_data).t = "list"
    /\ ld_pc' = "loop"
    /\ ld_total' = MessagesData(ld_data).n
    /\ UNCHANGED <<ld_data, ld_idx, ld_messages, ld_skipped, ld_entry, ld_fate>>
    /\ UNCHANGED notLoad

\* One iteration of "for entry in messages_data" that ends in skipped += 1.
Skip(entry, why) ==
    /\ ld_pc = "loop"
    /\ ld_idx < ld_total
    /\ ProcessEntry(entry).fate = "skipped"
    /\ ProcessEntry(entry).why = why
    /\ ld_skipped' = ld_skipped + 1
    /\ ld_idx' = ld_idx + 1
    /\ ld_entry' = entry
    /\ ld_fate' = "skipped"
    /\ UNCHANGED <<ld_pc, ld_data, ld_total, ld_messages>>
    /\ UNCHANGED notLoad

SkipNonObject == \E entry \in EntrySet : Skip(entry, "not_object")

SkipBadTimestamp == \E entry \in EntrySet : Skip(entry, "timestamp")

SkipSystemMessage == \E entry \in EntrySet : Skip(entry, "system")

\* int(timestamp_ms) raises an exception the except clause does not name
RaiseInLoop ==
    \E entry \in EntrySet :
        /\ ld_pc = "loop"
        /\ ld_idx < ld_total
        /\ ProcessEntry(entry).fate = "raised"
        /\ ld_pc' = "overflow_error"
        /\ ld_idx' = ld_idx + 1
        /\ ld_entry' = entry
        /\ ld_fate' = "raised"
        /\ UNCHANGED <<ld_data, ld_total, ld_messages, ld_skipped>>
        /\ UNCHANGED notLoad

AppendMessage ==
    \E entry \in EntrySet :
        /\ ld_pc = "loop"
        /\ ld_idx < ld_total
        /\ ProcessEntry(entry).fate = "kept"
        /\ ld_messages' = Append(ld_messages, ProcessEntry(entry).msg)
        /\ ld_idx' = ld_idx + 1
        /\ ld_entry' = entry
        /\ ld_fate' = "kept"
        /\ UNCHANGED <<ld_pc, ld_data, ld_total, ld_skipped>>
        /\ UNCHANGED notLoad

\* return messages, skipped
ReturnMessages ==
    /\ ld_pc = "loop"
    /\ ld_idx = ld_total
    /\ ld_pc' = "done"
    /\ UNCHANGED <<ld_data, ld_total, ld_idx, ld_messages, ld_skipped,
                   ld_entry, ld_fate>>
    /\ UNCHANGED notLoad

LoadNext ==
    \/ RaiseAttributeError
    \/ RaiseFormatError
    \/ EnterLoop
    \/ SkipNonObject
    \/ SkipBadTimestamp
    \/ SkipSystemMessage
    \/ RaiseInLoop
    \/ AppendMessage
    \/ ReturnMessages

(***************************************************************************)
(* Specification of compute_metrics: the messages, the timezone and the    *)
(* response bounds are drawn, then the bundle is computed.                 *)
(***************************************************************************)
MaxMessages == 3

S_Cy == <<67, 121>>

MetricSenders == {S_Al, S_Bo, S_Cy}

\* 1970-01-01 00:00:00, 00:00:01, 00:00:03, 05:00:00, 12:00:01 and
\* 1970-01-02 01:00 UTC
MetricTimestamps == {0, 1000, 3000, 18000000, 43201000, 90000000}

\* UTC and UTC-5
TimezoneOffsets == {0, -18000}

(***************************************************************************)
(* metrics.py : the statistics of the bundle                               *)
(***************************************************************************)
\* shares = {sender: count / total * 100.0 ...}
message_shares(counts, total) ==
    [i \in 1..Len(counts) |->
        <<counts[i][1],
          IF total # 0 THEN <<counts[i][2] * 100, total>> ELSE <<0, 1>>>>]

\* a non-empty content: "if msg.content" and "if not msg.content: continue"
HasContent(msg) == msg.content.t = "str" /\ msg.content.s # <<>>

\* ResponseStats; every time is kept in milliseconds, so a field x_min holds
\* 60000 times the minutes of the source
ResponseStats(count, avg_min, median_min, p90_min, min_min, max_min) ==
    [count |-> count, avg_min |-> avg_min, median_min |-> median_min,
     p90_min |-> p90_min, min_min |-> min_min, max_min |-> max_min]

EmptyResponseStats == ResponseStats(0, NoQ, NoQ, NoQ, NoQ, NoQ)

\* statistics.median(deltas), times 2
MedianTwice(values) ==
    LET s == SortedValues(values)
        n == Len(s)
    IN  IF n % 2 = 1 THEN 2 * s[(n + 1) \div 2]
        ELSE s[n \div 2] + s[n \div 2 + 1]

summarize_delta_list(deltas) ==
    IF deltas = <<>> THEN EmptyResponseStats
    ELSE LET s == SortedValues(deltas)
         IN  ResponseStats(Len(deltas),
                           Q(SumSeq(deltas), Len(deltas)),
                           Q(MedianTwice(deltas), 2),
                           percentile(deltas, 90),
                           Q(s[1], 1),
                           Q(s[Len(s)], 1))

summarize_response_times(deltas_by_sender) ==
    [i \in 1..Len(deltas_by_sender) |->
        <<deltas_by_sender[i][1], summarize_delta_list(deltas_by_sender[i][2])>>]

\* all_deltas.extend(deltas) for every sender, in the order of the dict
RECURSIVE ConcatValues(_)
ConcatValues(d) ==
    IF d = <<>> THEN <<>> ELSE Head(d)[2] \o ConcatValues(Tail(d))

overall_response_stats(deltas_by_sender) ==
    summarize_delta_list(ConcatValues(deltas_by_sender))

\* the deltas of response_time_extremes in the order the loops visit them,
\* each with its sender
RECURSIVE SenderDeltas(_)
SenderDeltas(d) ==
    IF d = <<>> THEN <<>>
    ELSE [k \in 1..Len(Head(d)[2]) |-> <<Head(d)[1], Head(d)[2][k]>>]
         \o SenderDeltas(Tail(d))

\* the first item no other item is below (min), or above (max)
MinItemIndex(d) ==
    CHOOSE i \in 1..Len(d) :
        /\ \A j \in 1..Len(d) : d[i][2] <= d[j][2]
        /\ \A j \in 1..(i - 1) : d[j][2] > d[i][2]

NoSender == [t |-> "none", s |-> <<>>]

response_time_extremes(deltas_by_sender) ==
    LET visited == SenderDeltas(deltas_by_sender)
    IN  IF visited = <<>>
        THEN [min_min |-> NoQ, max_min |-> NoQ,
              min_sender |-> NoSender, max_sender |-> NoSender]
        ELSE LET lo == visited[MinItemIndex(visited)]
                 hi == visited[MaxItemIndex(visited)]
             IN  [min_min |-> Q(lo[2], 1), max_min |-> Q(hi[2], 1),
                  min_sender |-> Text(lo[1]), max_sender |-> Text(hi[1])]

MinRatioIndex(d) ==
    CHOOSE i \in 1..Len(d) :
        /\ \A j \in 1..Len(d) : ~RatLess(d[j][2], d[i][2])
        /\ \A j \in 1..(i - 1) : RatLess(d[i][2], d[j][2])

NoLeader == [t |-> "none", sender |-> <<>>, avg_min |-> NoQ]
Leader(item) == [t |-> "dict", sender |-> item[1], avg_min |-> Q(item[2][1], item[2][2])]

response_time_leaders(response_stats) ==
    LET with_avg   == SelectSeq(response_stats, LAMBDA it : it[2].avg_min.t = "num")
        candidates == [i \in 1..Len(with_avg) |->
                         <<with_avg[i][1], with_avg[i][2].avg_min.q>>]
    IN  IF candidates = <<>> THEN [fastest |-> NoLeader, slowest |-> NoLeader]
        ELSE [fastest |-> Leader(candidates[MinRatioIndex(candidates)]),
              slowest |-> Leader(candidates[MaxRatioIndex(candidates)])]

\* response_stats.setdefault(name, ResponseStats(count=0, ...)) for every
\* participant
SetNoDefaults(response_stats, names) == response_stats
RECURSIVE SetDefaults(_, _)
SetDefaults(response_stats, names) ==
    IF names = <<>> THEN response_stats
    ELSE SetDefaults(IF DictHas(response_stats, Head(names)) THEN response_stats
                     ELSE Append(response_stats, <<Head(names), EmptyResponseStats>>),
                     Tail(names))

\* Counter.most_common(n): the items by falling count, items of equal count
\* in the order of the counter, cut to n items
InsertItemByCount(ranked, item) ==
    LET k == Cardinality({i \in 1..Len(ranked) : ranked[i][2] >= item[2]})
    IN  SubSeq(ranked, 1, k) \o <<item>> \o SubSeq(ranked, k + 1, Len(ranked))

RECURSIVE RankItems(_, _)
RankItems(ranked, rest) ==
    IF rest = <<>> THEN ranked
    ELSE RankItems(InsertItemByCount(ranked, Head(rest)), Tail(rest))

FirstN(s, n) == SubSeq(s, 1, IF Len(s) < n THEN Len(s) ELSE n)

most_common(counter, n) == FirstN(RankItems(<<>>, counter), n)

\* Counter(): one count more for every key of the sequence, in turn
RECURSIVE CountKeys(_, _)
CountKeys(counter, keys) ==
    IF keys = <<>> THEN counter
    ELSE CountKeys(DictPut(counter, Head(keys), DictGet(counter, Head(keys), 0) + 1),
                   Tail(keys))

\* the local calendar day of a message, counted from 1970-01-01
LocalDay(msg, tz) == LocalSeconds(msg, tz) \div 86400

\* <<year, month, day>> of a day counted from 1970-01-01 (proleptic
\* Gregorian calendar, as datetime has it)
CivilFromDays(z) ==
    LET zz  == z + 719468
        era == zz \div 146097
        doe == zz - era * 146097
        yoe == (doe - doe \div 1460 + doe \div 36524 - doe \div 146096) \div 365
        doy == doe - (365 * yoe + yoe \div 4 - yoe \div 100)
        mp  == (5 * doy + 2) \div 153
        d   == doy - (153 * mp + 2) \div 5 + 1
        m   == IF mp < 10 THEN mp + 3 ELSE mp - 9
        y   == yoe + era * 400
    IN  <<IF m <= 2 THEN y + 1 ELSE y, m, d>>

\* dt.strftime("%Y-%m-%d"), kept as <<year, month, day>>
DateLabel(msg, tz) == CivilFromDays(LocalDay(msg, tz))

\* f"{dt.year:04d}-{dt.month:02d}", kept as <<year, month>>
MonthLabel(msg, tz) == SubSeq(DateLabel(msg, tz), 1, 2)

top_hours(messages, tz) ==
    most_common(CountKeys(<<>>, [i \in 1..Len(messages) |-> HourOf(messages[i], tz)]), 5)

\* WEEKDAY_NAMES = ["Mon", "Tue", "Wed", "Thu", "Fri", "Sat", "Sun"]
WEEKDAY_NAMES ==
    <<<<77, 111, 110>>, <<84, 117, 101>>, <<87, 101, 100>>, <<84, 104, 117>>,
      <<70, 114, 105>>, <<83, 97, 116>>, <<83, 117, 110>>>>

top_weekdays(messages, tz) ==
    LET counts == CountKeys(<<>>, [i \in 1..Len(messages) |->
                                     WeekdayOf(messages[i], tz)])
        top    == RankItems(<<>>, counts)
        cut    == FirstN(top, 5)
    IN  [i \in 1..Len(cut) |-> <<WEEKDAY_NAMES[cut[i][1] + 1], cut[i][2]>>]

\* label a sorts before label b: the labels are zero-padded, so the order
\* of the strings is the order of the numbers
LabelBefore(a, b) ==
    \/ a[1] < b[1]
    \/ (a[1] = b[1] /\ a[2] < b[2])

\* sorted(counts.items()) of a counter keyed by month label
InsertByLabel(sorted, item) ==
    LET k == Cardinality({i \in 1..Len(sorted) : LabelBefore(sorted[i][1], item[1])})
    IN  SubSeq(sorted, 1, k) \o <<item>> \o SubSeq(sorted, k + 1, Len(sorted))

RECURSIVE SortByLabel(_, _)
SortByLabel(sorted, rest) ==
    IF rest = <<>> THEN sorted
    ELSE SortByLabel(InsertByLabel(sorted, Head(rest)), Tail(rest))

messages_per_month(messages, tz) ==
    SortByLabel(<<>>, CountKeys(<<>>, [i \in 1..Len(messages) |->
                                         MonthLabel(messages[i], tz)]))

NoDay == [t |-> "none", date |-> <<>>, count |-> 0]

most_active_day(messages, tz) ==
    LET counts == CountKeys(<<>>, [i \in 1..Len(messages) |->
                                     DateLabel(messages[i], tz)])
    IN  IF counts = <<>> THEN NoDay
        ELSE LET best == counts[MaxItemIndex(counts)]
             IN  [t |-> "dict", date |-> best[1], count |-> best[2]]

\* a datetime with a timezone: the instant and the offset it is shown in
NoDatetime == [t |-> "none", ts |-> 0, tz |-> 0]
Datetime(ts, tz) == [t |-> "datetime", ts |-> ts, tz |-> tz]

NoGap == [t |-> "none", duration_seconds |-> 0, start |-> NoDatetime, end |-> NoDatetime]

\* longest_gap: the first adjacent pair with the largest delta;
\* duration_seconds is kept in milliseconds, as every time is
longest_gap(messages, tz) ==
    LET sorted_messages == sort_messages(messages)
        n == Len(sorted_messages)
        delta(i) == sorted_messages[i + 1].timestamp_ms
                        - sorted_messages[i].timestamp_ms
    IN  IF n < 2 THEN NoGap
        ELSE LET best == CHOOSE i \in 1..(n - 1) :
                            /\ \A j \in 1..(n - 1) : delta(j) <= delta(i)
                            /\ \A j \in 1..(i - 1) : delta(j) < delta(i)
             IN  [t |-> "dict", duration_seconds |-> delta(best),
                  start |-> Datetime(sorted_messages[best].timestamp_ms, tz),
                  end |-> Datetime(sorted_messages[best + 1].timestamp_ms, tz)]

\* last_seen_stats: last_per_day[key] = msg for every message in sorted
\* order; a key keeps the place of its first message
RECURSIVE FirstPerDay(_, _, _)
FirstPerDay(last_per_day, rest, tz) ==
    IF rest = <<>> THEN last_per_day
    ELSE FirstPerDay(IF DictHas(last_per_day, DateLabel(Head(rest), tz))
                     THEN last_per_day
                     ELSE DictPut(last_per_day, DateLabel(Head(rest), tz),
                                  Head(rest)),
                     Tail(rest), tz)
RECURSIVE LastPerDay(_, _, _)
LastPerDay(last_per_day, rest, tz) ==
    IF rest = <<>> THEN last_per_day
    ELSE LastPerDay(DictPut(last_per_day, DateLabel(Head(rest), tz), Head(rest)),
                    Tail(rest), tz)

last_seen_stats(messages, tz, threshold_hour) ==
    LET sorted_messages == sort_messages(messages)
        last_per_day == LastPerDay(<<>>, sorted_messages, tz)
        late   == SelectSeq([i \in 1..Len(last_per_day) |-> last_per_day[i][2]],
                            LAMBDA msg : HourOf(msg, tz) >= threshold_hour)
        counts == CountKeys(<<>>, [i \in 1..Len(late) |-> late[i].sender_name])
        total  == DictSum(counts)
    IN  [counts |-> counts,
         pct_by_sender |-> [i \in 1..Len(counts) |->
                              <<counts[i][1],
                                IF total # 0 THEN <<counts[i][2] * 100, total>>
                                ELSE <<0, 1>>>>],
         winner |-> IF counts # <<>>
                    THEN Winner(counts[MaxItemIndex(counts)][1],
                                counts[MaxItemIndex(counts)][2])
                    ELSE NoWinner,
         total |-> total]

\* longest_streak: state is <<max_sender, max_len, current_sender, current_len>>
RECURSIVE StreakInto(_, _, _, _, _)
StreakInto(max_sender, max_len, current_sender, current_len, rest) ==
    IF rest = <<>> THEN [sender |-> max_sender, length |-> max_len]
    ELSE LET msg  == Head(rest)
             same == current_sender = Text(msg.sender_name)
             len  == IF same THEN current_len + 1 ELSE 1
         IN  IF len > max_len
             THEN StreakInto(Text(msg.sender_name), len,
                             Text(msg.sender_name), len, Tail(rest))
             ELSE StreakInto(max_sender, max_len,
                             Text(msg.sender_name), len, Tail(rest))

longest_streak(messages) ==
    StreakInto(NoSender, 0, NoSender, 0, sort_messages(messages))

\* conversation_starters: the loop over the adjacent pairs
RECURSIVE StartersIntoInclusive(_, _, _)
StartersIntoInclusive(starters, rest, threshold_ms) ==
    IF Len(rest) < 2 THEN starters
    ELSE IF rest[2].timestamp_ms - rest[1].timestamp_ms >= threshold_ms
    THEN StartersIntoInclusive(
             DictPut(starters, rest[2].sender_name,
                     DictGet(starters, rest[2].sender_name, 0) + 1),
             Tail(rest), threshold_ms)
    ELSE StartersIntoInclusive(starters, Tail(rest), threshold_ms)
RECURSIVE StartersInto(_, _, _)
StartersInto(starters, rest, threshold_ms) ==
    IF Len(rest) < 2 THEN starters
    ELSE LET prev    == rest[1]
             current == rest[2]
             delta   == current.timestamp_ms - prev.timestamp_ms
         IN  IF delta > threshold_ms
             THEN StartersInto(DictPut(starters, current.sender_name,
                                       DictGet(starters, current.sender_name, 0) + 1),
                               Tail(rest), threshold_ms)
             ELSE StartersInto(starters, Tail(rest), threshold_ms)

conversation_starters(messages, threshold_ms) ==
    LET sorted_messages == sort_messages(messages)
    IN  IF sorted_messages = <<>> THEN <<>>
        ELSE StartersInto(<<<<sorted_messages[1].sender_name, 1>>>>,
                          sorted_messages, threshold_ms)

date_range(messages, tz) ==
    LET sorted_messages == sort_messages(messages)
    IN  IF sorted_messages = <<>> THEN [start |-> NoDatetime, end |-> NoDatetime]
        ELSE [start |-> Datetime(sorted_messages[1].timestamp_ms, tz),
              end |-> Datetime(sorted_messages[Len(sorted_messages)].timestamp_ms, tz)]

\* defaultdict(lambda: {"photos": 0, "videos": 0, "audio": 0})
NoMediaCounts == [photos |-> 0, videos |-> 0, audio |-> 0]

RECURSIVE MediaInto(_, _)
MediaInto(per_sender, rest) ==
    IF rest = <<>> THEN per_sender
    ELSE LET msg == Head(rest)
             old == DictGet(per_sender, msg.sender_name, NoMediaCounts)
         IN  MediaInto(DictPut(per_sender, msg.sender_name,
                               [photos |-> old.photos + msg.photo_count,
                                videos |-> old.videos + msg.video_count,
                                audio |-> old.audio + msg.audio_count]),
                       Tail(rest))

media_stats(messages) == MediaInto(<<>>, messages)

\* media_leaders, for one media type: the first sender with the largest
\* count, if that count is positive
MediaLeader(media_counts, media_type) ==
    LET column == [i \in 1..Len(media_counts) |->
                     <<media_counts[i][1], media_counts[i][2][media_type]>>]
    IN  IF column = <<>> THEN NoWinner
        ELSE LET best == column[MaxItemIndex(column)]
             IN  IF best[2] > 0 THEN Winner(best[1], best[2]) ELSE NoWinner

media_leaders(media_counts) ==
    [photos |-> MediaLeader(media_counts, "photos"),
     videos |-> MediaLeader(media_counts, "videos"),
     audio |-> MediaLeader(media_counts, "audio")]

\* EMOJI_RE: one code point of the listed ranges
IsEmoji(c) ==
    \/ (127462 <= c /\ c <= 127487)
    \/ (127744 <= c /\ c <= 128511)
    \/ (128512 <= c /\ c <= 128591)
    \/ (128640 <= c /\ c <= 128767)
    \/ (128768 <= c /\ c <= 128895)
    \/ (128896 <= c /\ c <= 129023)
    \/ (129024 <= c /\ c <= 129279)
    \/ (129280 <= c /\ c <= 129535)
    \/ (129536 <= c /\ c <= 129791)
    \/ (9728 <= c /\ c <= 9983)
    \/ (9984 <= c /\ c <= 10175)

\* EMOJI_RE.findall(text): every match is a string of one code point
extract_emojis(text) ==
    LET found == SelectSeq(text, IsEmoji)
    IN  [i \in 1..Len(found) |-> <<found[i]>>]

\* URL_RE.findall(text): the matches from left to right, none overlapping
RECURSIVE UrlFindFrom(_, _)
UrlFindFrom(text, i) ==
    IF i > Len(text) THEN <<>>
    ELSE LET n == UrlMatchLen(text, i)
         IN  IF n > 0
             THEN <<SubSeq(text, i, i + n - 1)>> \o UrlFindFrom(text, i + n)
             ELSE UrlFindFrom(text, i + 1)

extract_links(text) == UrlFindFrom(text, 1)

S_user == <<117, 115, 101, 114>>
S_unsent == <<117, 110, 115, 101, 110, 116>>

\* "user" in content_lower or "unsent" in content_lower
IsRedactedAsWritten(content) ==
    Contains(content, S_user) \/ Contains(content, S_unsent)
IsRedacted(content) ==
    Contains(Lower(content), S_user) \/ Contains(Lower(content), S_unsent)

\* the loop of word_stats; state is <<global_counts, per_sender>>
RECURSIVE WordsInto(_, _, _)
WordsInto(global_counts, per_sender, rest) ==
    IF rest = <<>> THEN <<global_counts, per_sender>>
    ELSE LET msg == Head(rest)
         IN  IF ~HasContent(msg) THEN WordsInto(global_counts, per_sender, Tail(rest))
             ELSE IF IsRedacted(msg.content.s)
             THEN WordsInto(global_counts, per_sender, Tail(rest))
             ELSE LET tokens == tokenize(msg.content.s)
                  IN  IF tokens = <<>>
                      THEN WordsInto(global_counts, per_sender, Tail(rest))
                      ELSE WordsInto(CountKeys(global_counts, tokens),
                                     DictPut(per_sender, msg.sender_name,
                                             CountKeys(DictGet(per_sender,
                                                               msg.sender_name, <<>>),
                                                       tokens)),
                                     Tail(rest))

\* {sender: counter.most_common(5) for sender, counter in per_sender.items()}
TopPerSender(per_sender) ==
    [i \in 1..Len(per_sender) |->
        <<per_sender[i][1], most_common(per_sender[i][2], 5)>>]

word_stats(messages) ==
    LET counted == WordsInto(<<>>, <<>>, messages)
    IN  [top_global |-> most_common(counted[1], 10),
         top_per_sender |-> TopPerSender(counted[2])]

\* for n in range(2, 6): phrases.extend(generate_ngrams(tokens, n))
PhrasesOf(tokens) ==
    generate_ngrams(tokens, 2) \o generate_ngrams(tokens, 3)
        \o generate_ngrams(tokens, 4) \o generate_ngrams(tokens, 5)

\* the loop of popular_phrases; state is <<global_counts, per_sender>>
RECURSIVE PhrasesInto(_, _, _)
PhrasesInto(global_counts, per_sender, rest) ==
    IF rest = <<>> THEN <<global_counts, per_sender>>
    ELSE LET msg == Head(rest)
         IN  IF ~HasContent(msg) THEN PhrasesInto(global_counts, per_sender, Tail(rest))
             ELSE IF IsRedacted(msg.content.s)
             THEN PhrasesInto(global_counts, per_sender, Tail(rest))
             ELSE LET tokens == tokenize_raw(msg.content.s)
                      valid_phrases == SelectSeq(PhrasesOf(tokens),
                                                 is_meaningful_phrase)
                  IN  IF tokens = <<>>
                      THEN PhrasesInto(global_counts, per_sender, Tail(rest))
                      ELSE PhrasesInto(CountKeys(global_counts, valid_phrases),
                                       DictPut(per_sender, msg.sender_name,
                                               CountKeys(DictGet(per_sender,
                                                                 msg.sender_name, <<>>),
                                                         valid_phrases)),
                                       Tail(rest))

popular_phrases(messages) ==
    LET counted == PhrasesInto(<<>>, <<>>, messages)
    IN  [top_global |-> most_common(counted[1], 10),
         top_per_sender |-> TopPerSender(counted[2])]

\* heart_emojis of emoji_stats; the entries of two code points are strings
\* extract_emojis never returns
heart_emojis ==
    {<<10084>>, <<10084, 65039>>, <<129293>>, <<129505>>, <<128153>>,
     <<128154>>, <<128155>>, <<128156>>, <<128420>>, <<129294>>, <<128152>>,
     <<128157>>, <<128150>>, <<128151>>, <<128147>>, <<128158>>, <<128159>>,
     <<10083, 65039>>}

\* the loop of emoji_stats; state is
\* <<global_counts, per_sender, per_sender_totals, hearts_by_sender>>
RECURSIVE EmojisInto(_, _)
EmojisInto(state, rest) ==
    IF rest = <<>> THEN state
    ELSE LET msg    == Head(rest)
             emojis == extract_emojis(msg.content.s)
             hearts == Len(SelectSeq(emojis, LAMBDA emoji : emoji \in heart_emojis))
             name   == msg.sender_name
         IN  IF ~HasContent(msg) \/ emojis = <<>> THEN EmojisInto(state, Tail(rest))
             ELSE EmojisInto(
                     <<CountKeys(state[1], emojis),
                       DictPut(state[2], name,
                               CountKeys(DictGet(state[2], name, <<>>), emojis)),
                       DictPut(state[3], name,
                               DictGet(state[3], name, 0) + Len(emojis)),
                       DictPut(state[4], name,
                               DictGet(state[4], name, 0) + hearts)>>,
                     Tail(rest))

emoji_stats(messages) ==
    LET counted == EmojisInto(<<<<>>, <<>>, <<>>, <<>>>>, messages)
    IN  [top_global |-> most_common(counted[1], 10),
         top_per_sender |-> TopPerSender(counted[2]),
         totals |-> counted[3],
         hearts |-> counted[4]]

emoji_leader(emoji_totals) ==
    IF emoji_totals = <<>> THEN NoWinner
    ELSE Winner(emoji_totals[MaxItemIndex(emoji_totals)][1],
                emoji_totals[MaxItemIndex(emoji_totals)][2])

\* the loop of link_stats; state is <<per_sender, total>>
RECURSIVE LinksInto(_, _, _)
LinksInto(per_sender, total, rest) ==
    IF rest = <<>> THEN [total |-> total, per_sender |-> per_sender]
    ELSE LET msg   == Head(rest)
             count == Len(extract_links(msg.content.s))
         IN  IF ~HasContent(msg) \/ count = 0
             THEN LinksInto(per_sender, total, Tail(rest))
             ELSE LinksInto(DictPut(per_sender, msg.sender_name,
                                    DictGet(per_sender, msg.sender_name, 0) + count),
                            total + count, Tail(rest))

link_stats(messages) == LinksInto(<<>>, 0, messages)

\* the loop of average_message_length; state is <<total_words, total_msgs>>
RECURSIVE LengthsInto(_, _, _)
LengthsInto(total_words, total_msgs, rest) ==
    IF rest = <<>> THEN <<total_words, total_msgs>>
    ELSE LET msg   == Head(rest)
             words == Len(tokenize(msg.content.s))
             name  == msg.sender_name
         IN  IF ~HasContent(msg) \/ words = 0
             THEN LengthsInto(total_words, total_msgs, Tail(rest))
             ELSE LengthsInto(DictPut(total_words, name,
                                      DictGet(total_words, name, 0) + words),
                              DictPut(total_msgs, name,
                                      DictGet(total_msgs, name, 0) + 1),
                              Tail(rest))

\* average_message_length: per sender the quotient words / messages
average_message_length(messages) ==
    LET counted     == LengthsInto(<<>>, <<>>, messages)
        total_words == counted[1]
        total_msgs  == counted[2]
    IN  [i \in 1..Len(total_msgs) |->
            <<total_msgs[i][1],
              IF total_msgs[i][2] # 0
              THEN <<DictGet(total_words, total_msgs[i][1], 0), total_msgs[i][2]>>
              ELSE <<0, 1>>>>]

(***************************************************************************)
(* text.py : sentiment_score                                               *)
(*                                                                         *)
(* Weights and scores are exact quotients <<numerator, denominator>> in    *)
(* lowest terms; the rounding of the float operations is left out.  The    *)
(* last step, tanh(score / norm / 2) with norm = max(1, sqrt(n)), is not   *)
(* evaluated: a heuristic score is kept as the pair of score and n.        *)
(***************************************************************************)
\* SENTIMENT_LEXICON = {**TINY_MODEL_WEIGHTS, **EXTRA_SENTIMENT_WEIGHTS}: token
\* and weight, the weights in tenths
SENTIMENT_LEXICON ==
    <<<<<<115, 117, 112, 101, 114>>, <<14, 10>>>>,
     <<<<111, 107>>, <<8, 10>>>>, <<<<100, 111, 98, 114, 121>>, <<12, 10>>>>,
     <<<<115, 119, 105, 101, 116, 110, 121>>, <<16, 10>>>>,
     <<<<102, 97, 106, 110, 121>>, <<11, 10>>>>,
     <<<<107, 111, 99, 104, 97, 109>>, <<20, 10>>>>,
     <<<<108, 117, 98, 105>>, <<9, 10>>>>,
     <<<<108, 117, 98, 105, 101>>, <<9, 10>>>>,
     <<<<100, 122, 105, 101, 107, 105>>, <<11, 10>>>>,
     <<<<100, 122, 105, 101, 107, 117, 106, 101>>, <<11, 10>>>>,
     <<<<115, 112, 111, 107, 111>>, <<10, 10>>>>,
     <<<<119, 111, 119>>, <<12, 10>>>>, <<<<103, 105, 116>>, <<11, 10>>>>,
     <<<<99, 111, 111, 108>>, <<12, 10>>>>,
     <<<<110, 105, 99, 101>>, <<11, 10>>>>,
     <<<<103, 114, 101, 97, 116>>, <<15, 10>>>>,
     <<<<97, 119, 101, 115, 111, 109, 101>>, <<17, 10>>>>,
     <<<<108, 111, 118, 101>>, <<16, 10>>>>,
     <<<<104, 97, 112, 112, 121>>, <<13, 10>>>>,
     <<<<112, 101, 114, 102, 101, 99, 116>>, <<16, 10>>>>,
     <<<<121, 101, 115>>, <<7, 10>>>>, <<<<121, 117, 112>>, <<6, 10>>>>,
     <<<<116, 104, 120>>, <<8, 10>>>>,
     <<<<116, 104, 97, 110, 107, 115>>, <<10, 10>>>>,
     <<<<120, 68>>, <<5, 10>>>>, <<<<120, 100>>, <<5, 10>>>>,
     <<<<108, 111, 108>>, <<6, 10>>>>, <<<<122, 108, 121>>, <<-14, 10>>>>,
     <<<<115, 108, 97, 98, 121>>, <<-11, 10>>>>,
     <<<<115, 109, 117, 116, 110, 121>>, <<-13, 10>>>>,
     <<<<119, 107, 117, 114, 122, 97>>, <<-14, 10>>>>,
     <<<<110, 105, 101>>, <<-6, 10>>>>,
     <<<<110, 105, 101, 99, 104, 99, 101>>, <<-11, 10>>>>,
     <<<<110, 105, 101, 110, 97, 119, 105, 100, 122, 101>>, <<-20, 10>>>>,
     <<<<112, 114, 111, 98, 108, 101, 109>>, <<-9, 10>>>>,
     <<<<115, 111, 114, 114, 121>>, <<-7, 10>>>>,
     <<<<98, 97, 100>>, <<-12, 10>>>>, <<<<115, 97, 100>>, <<-12, 10>>>>,
     <<<<97, 110, 103, 114, 121>>, <<-15, 10>>>>,
     <<<<104, 97, 116, 101>>, <<-18, 10>>>>,
     <<<<110, 111, 112, 101>>, <<-8, 10>>>>,
     <<<<119, 111, 114, 115, 116>>, <<-16, 10>>>>,
     <<<<115, 117, 99, 107, 115>>, <<-14, 10>>>>,
     <<<<119, 116, 102>>, <<-13, 10>>>>, <<<<101, 104>>, <<-4, 10>>>>,
     <<<<115, 101, 114, 105, 111>>, <<-6, 10>>>>,
     <<<<98, 101, 122, 115, 101, 110, 115>>, <<-11, 10>>>>,
     <<<<109, 97, 115, 97, 107, 114, 97>>, <<-14, 10>>>>,
     <<<<119, 115, 112, 97, 110, 105, 97, 108, 121>>, <<18, 10>>>>,
     <<<<99, 117, 100, 111, 119, 110, 121>>, <<17, 10>>>>,
     <<<<102, 97, 110, 116, 97, 115, 116, 121, 99, 122, 110, 121>>, <<16, 10>>>>,
     <<<<110, 105, 101, 115, 97, 109, 111, 119, 105, 116, 121>>, <<16, 10>>>>,
     <<<<114, 101, 119, 101, 108, 97, 99, 106, 97>>, <<17, 10>>>>,
     <<<<114, 101, 119, 101, 108, 97, 99, 121, 106, 110, 121>>, <<16, 10>>>>,
     <<<<101, 120, 116, 114, 97>>, <<11, 10>>>>,
     <<<<102, 97, 106, 110, 105, 101>>, <<10, 10>>>>,
     <<<<112, 105, 101, 107, 110, 105, 101>>, <<12, 10>>>>,
     <<<<117, 114, 111, 99, 122, 111>>, <<11, 10>>>>,
     <<<<115, 108, 111, 100, 107, 111>>, <<11, 10>>>>,
     <<<<107, 111, 99, 104, 97, 110, 121>>, <<14, 10>>>>,
     <<<<117, 119, 105, 101, 108, 98, 105, 97, 109>>, <<19, 10>>>>,
     <<<<100, 117, 109, 110, 97>>, <<12, 10>>>>,
     <<<<100, 117, 109, 110, 121>>, <<12, 10>>>>,
     <<<<119, 115, 112, 97, 110, 105, 97, 108, 101>>, <<16, 10>>>>,
     <<<<103, 101, 110, 105, 97, 108, 110, 121>>, <<17, 10>>>>,
     <<<<103, 101, 110, 105, 97, 108, 110, 105, 101>>, <<15, 10>>>>,
     <<<<122, 97, 106, 101, 98, 105, 115, 99, 105, 101>>, <<18, 10>>>>,
     <<<<122, 97, 106, 101, 98, 105, 115, 116, 121>>, <<18, 10>>>>,
     <<<<115, 112, 111, 107, 111, 106, 110, 105, 101>>, <<6, 10>>>>,
     <<<<116, 114, 97, 103, 101, 100, 105, 97>>, <<-17, 10>>>>,
     <<<<100, 114, 97, 109, 97, 116>>, <<-16, 10>>>>,
     <<<<98, 101, 122, 110, 97, 100, 122, 105, 101, 106, 110, 121>>, <<-17, 10>>>>,
     <<<<111, 107, 114, 111, 112, 110, 121>>, <<-16, 10>>>>,
     <<<<102, 97, 116, 97, 108, 110, 121>>, <<-16, 10>>>>,
     <<<<115, 109, 117, 116, 110, 111>>, <<-13, 10>>>>,
     <<<<112, 114, 122, 121, 107, 114, 111>>, <<-11, 10>>>>,
     <<<<122, 97, 108>>, <<-11, 10>>>>,
     <<<<122, 97, 108, 111, 115, 110, 121>>, <<-12, 10>>>>,
     <<<<122, 97, 108, 111, 115, 110, 101>>, <<-12, 10>>>>,
     <<<<122, 108, 101>>, <<-12, 10>>>>,
     <<<<103, 111, 114, 122, 101, 106>>, <<-9, 10>>>>,
     <<<<115, 108, 97, 98, 111>>, <<-11, 10>>>>,
     <<<<119, 107, 117, 114, 122, 111, 110, 121>>, <<-14, 10>>>>,
     <<<<119, 107, 117, 114, 119, 105, 111, 110, 121>>, <<-16, 10>>>>,
     <<<<122, 97, 108, 97, 109, 107, 97>>, <<-14, 10>>>>,
     <<<<110, 101, 114, 119, 111, 119, 111>>, <<-11, 10>>>>,
     <<<<110, 101, 114, 119, 111, 119, 121>>, <<-11, 10>>>>,
     <<<<115, 116, 114, 101, 115>>, <<-10, 10>>>>,
     <<<<115, 116, 114, 101, 115, 117, 106, 97, 99, 101>>, <<-11, 10>>>>,
     <<<<111, 107, 114, 111, 112, 110, 105, 101>>, <<-15, 10>>>>,
     <<<<110, 105, 101, 102, 97, 106, 110, 121>>, <<-10, 10>>>>>>

\* INTENSIFIERS
INTENSIFIERS ==
    <<<<<<98, 97, 114, 100, 122, 111>>, <<13, 10>>>>,
     <<<<109, 101, 103, 97>>, <<14, 10>>>>,
     <<<<115, 117, 112, 101, 114>>, <<12, 10>>>>,
     <<<<115, 116, 114, 97, 115, 122, 110, 105, 101>>, <<14, 10>>>>,
     <<<<110, 97, 112, 114, 97, 119, 100, 101>>, <<12, 10>>>>,
     <<<<116, 111, 116, 97, 108, 110, 105, 101>>, <<12, 10>>>>,
     <<<<109, 111, 99, 110, 111>>, <<12, 10>>>>,
     <<<<110, 105, 101, 115, 97, 109, 111, 119, 105, 99, 105, 101>>, <<14, 10>>>>,
     <<<<99, 104, 111, 108, 101, 114, 110, 105, 101>>, <<13, 10>>>>>>

\* DAMPENERS
DAMPENERS ==
    <<<<<<116, 114, 111, 99, 104, 101>>, <<7, 10>>>>,
     <<<<116, 114, 111, 115, 122, 107, 101>>, <<7, 10>>>>,
     <<<<108, 101, 107, 107, 111>>, <<8, 10>>>>,
     <<<<114, 97, 99, 122, 101, 106>>, <<8, 10>>>>>>

\* NEGATIONS
NEGATIONS ==
    {<<98, 101, 122>>, <<110, 105, 99>>, <<110, 105, 101>>,
     <<110, 105, 103, 100, 121>>, <<110, 105, 107, 116>>,
     <<122, 97, 100, 110, 97>>, <<122, 97, 100, 110, 101>>,
     <<122, 97, 100, 110, 101, 103, 111>>,
     <<122, 97, 100, 110, 121, 99, 104>>}

\* POSITIVE_EMOJI
POSITIVE_EMOJI ==
    {128077, 128149, 128150, 128151, 128152, 128154, 128155, 128156, 128157,
     128512, 128513, 128514, 128521, 128522, 128525, 128526, 129392, 129395}

\* NEGATIVE_EMOJI
NEGATIVE_EMOJI ==
    {128148, 128530, 128532, 128544, 128545, 128546, 128548, 128549, 128557,
     128577, 129324}

\* REPEAT_RE = (.)\1{2,} ; REPEAT_RE.sub(r"\1\1", text): a run of three or
\* more of one character, a newline excepted, shrinks to two
RECURSIVE SameRun(_, _, _)
SameRun(text, i, c) ==
    IF i > Len(text) \/ text[i] # c THEN 0 ELSE 1 + SameRun(text, i + 1, c)

RECURSIVE RepeatSubFrom(_, _)
RepeatSubFrom(text, i) ==
    IF i > Len(text) THEN <<>>
    ELSE LET c == text[i]
             r == SameRun(text, i, c)
         IN  IF c # 10 /\ r >= 3
             THEN <<c, c>> \o RepeatSubFrom(text, i + r)
             ELSE <<c>> \o RepeatSubFrom(text, i + 1)

\* sentiment_tokenize
sentiment_tokenize(text) ==
    LET cleaned == CleanText(text)
        kept    == SelectSeq(SplitOnSpace(cleaned, <<>>),
                             LAMBDA token : ~(Len(token) < 2) /\ ~AllDigits(token))
    IN  IF cleaned = <<>> THEN <<>>
        ELSE [i \in 1..Len(kept) |-> normalize_token(kept[i])]

\* The state of the token walk of sentiment_score, and one turn of its loop
WalkStart == [score |-> <<0, 1>>, intensify |-> <<1, 1>>, negate |-> 0]

WalkStep(w, token) ==
    LET weight == DictGet(SENTIMENT_LEXICON, token, <<0, 1>>)
        flipped == IF w.negate > 0 THEN RatMul(RatNeg(weight), <<85, 100>>)
                   ELSE weight
    IN  IF token \in NEGATIONS THEN [w EXCEPT !.negate = 2]
        ELSE IF DictHas(INTENSIFIERS, token)
        THEN [w EXCEPT !.intensify = RatMax(w.intensify,
                                            DictGet(INTENSIFIERS, token, <<1, 1>>))]
        ELSE IF DictHas(DAMPENERS, token)
        THEN [w EXCEPT !.intensify = RatMul(w.intensify,
                                            DictGet(DAMPENERS, token, <<1, 1>>))]
        ELSE IF weight[1] = 0 THEN w
        ELSE [score |-> RatAdd(w.score, RatMul(flipped, w.intensify)),
              intensify |-> <<1, 1>>,
              negate |-> IF w.negate > 0 THEN w.negate - 1 ELSE w.negate]

RECURSIVE WalkTokens(_, _)
WalkTokens(w, tokens) ==
    IF tokens = <<>> THEN w ELSE WalkTokens(WalkStep(w, Head(tokens)), Tail(tokens))

\* the length of the run of characters matching the letter p (under
\* re.IGNORECASE) at position i
RECURSIVE LetterRun(_, _, _)
LetterRun(text, i, p) ==
    IF i > Len(text) \/ ~MatchLetter(text[i], p) THEN 0
    ELSE 1 + LetterRun(text, i + 1, p)

\* pat, then one or more of p, at position i: the length of the match, or 0
PrefixThenRun(text, i, pat, p) ==
    IF MatchesAt(text, i, pat) /\ LetterRun(text, i + Len(pat), p) >= 1
    THEN Len(pat) + LetterRun(text, i + Len(pat), p)
    ELSE 0

\* the first of the lengths that is not 0
RECURSIVE FirstMatch(_)
FirstMatch(lengths) ==
    IF lengths = <<>> THEN 0
    ELSE IF Head(lengths) > 0 THEN Head(lengths)
    ELSE FirstMatch(Tail(lengths))

\* POSITIVE_EMOTICON_RE = (:\)+|:-\)+|:d+|x-?d+|;\)+|<3), re.IGNORECASE: the
\* length of the match at position i, or 0
PositiveEmoticonLen(text, i) ==
    FirstMatch(<<PrefixThenRun(text, i, <<58>>, 41),
                 PrefixThenRun(text, i, <<58, 45>>, 41),
                 PrefixThenRun(text, i, <<58>>, 100),
                 PrefixThenRun(text, i, <<120, 45>>, 100),
                 PrefixThenRun(text, i, <<120>>, 100),
                 PrefixThenRun(text, i, <<59>>, 41),
                 IF MatchesAt(text, i, <<60, 51>>) THEN 2 ELSE 0>>)

\* NEGATIVE_EMOTICON_RE = (:\(+|:-\(+|:'\(+|=\(+|d:|d=|>:\(), re.IGNORECASE
NegativeEmoticonLen(text, i) ==
    FirstMatch(<<PrefixThenRun(text, i, <<58>>, 40),
                 PrefixThenRun(text, i, <<58, 45>>, 40),
                 PrefixThenRun(text, i, <<58, 39>>, 40),
                 PrefixThenRun(text, i, <<61>>, 40),
                 IF MatchesAt(text, i, <<100, 58>>) THEN 2 ELSE 0,
                 IF MatchesAt(text, i, <<100, 61>>) THEN 2 ELSE 0,
                 IF MatchesAt(text, i, <<62, 58, 40>>) THEN 3 ELSE 0>>)

\* len(POSITIVE_EMOTICON_RE.findall(text)): matches from left to right, none
\* overlapping
RECURSIVE CountPositiveEmoticons(_, _)
CountPositiveEmoticons(text, i) ==
    IF i > Len(text) THEN 0
    ELSE LET n == PositiveEmoticonLen(text, i)
         IN  IF n > 0 THEN 1 + CountPositiveEmoticons(text, i + n)
             ELSE CountPositiveEmoticons(text, i + 1)

RECURSIVE CountNegativeEmoticons(_, _)
CountNegativeEmoticons(text, i) ==
    IF i > Len(text) THEN 0
    ELSE LET n == NegativeEmoticonLen(text, i)
         IN  IF n > 0 THEN 1 + CountNegativeEmoticons(text, i + n)
             ELSE CountNegativeEmoticons(text, i + 1)

\* \b in front of position i (i = Len(text) + 1 is the end of the text)
WordCharAt(text, i) == i >= 1 /\ i <= Len(text) /\ IsWordChar(text[i])
WordBoundary(text, i) == WordCharAt(text, i - 1) # WordCharAt(text, i)

\* LAUGHTER_RE = \b(ha){2,}|(he){2,}|(ja){2,}|lol+\b, re.IGNORECASE ;
\* LAUGHTER_RE.search(text)
Laughter(text) ==
    \E i \in 1..Len(text) :
        \/ WordBoundary(text, i) /\ MatchesAt(text, i, <<104, 97, 104, 97>>)
        \/ MatchesAt(text, i, <<104, 101, 104, 101>>)
        \/ MatchesAt(text, i, <<106, 97, 106, 97>>)
        \/ /\ MatchesAt(text, i, <<108, 111, 108>>)
           /\ WordBoundary(text, i + 2 + LetterRun(text, i + 2, 108))

\* str.isupper() of one code point that is a letter
IsUpper(c) == IsAlpha(c) /\ LowerChar(c) # <<c>>

\* A score: an exact number q (k = "exact"), or the value
\* tanh(q / max(1, sqrt(n)) / 2) the heuristic returns (k = "tanh");
\* tanh(0) is the exact number 0
ExactScore(q) == [k |-> "exact", q |-> RatNorm(q), n |-> 1]
TanhScore(q, n) ==
    IF q[1] = 0 THEN ExactScore(<<0, 1>>)
    ELSE [k |-> "tanh", q |-> RatNorm(q), n |-> IF n < 1 THEN 1 ELSE n]

\* the emojis of the list that are in the set
EmojisIn(emojis, set) == Len(SelectSeq(emojis, LAMBDA emo : emo[1] \in set))

\* if LAUGHTER_RE.search(text): score += 0.5
AfterLaughter(score, text) ==
    IF Laughter(text) THEN RatAdd(score, <<5, 10>>) ELSE score

\* if punct: score *= 1 + min(0.3, 0.04 * punct)
AfterPunctuation(score, punct) ==
    IF punct # 0
    THEN RatMul(score, RatAdd(<<1, 1>>, RatMin(<<3, 10>>, <<4 * punct, 100>>)))
    ELSE score

\* if len(letters) >= 4 and upper_ratio >= 0.6: score *= 1.1
AfterUppercase(score, letters, uppers) ==
    IF letters >= 4 /\ uppers * 10 >= 6 * letters
    THEN RatMul(score, <<11, 10>>)
    ELSE score

\* the score of a text that is not empty, from its tokens and its counts
\* of emoticons and emojis
ScoreOfCounts(text, tokens, pos_emot, neg_emot, pos_emo, neg_emo) ==
    TanhScore(
        AfterUppercase(
            AfterPunctuation(
                RatAdd(AfterLaughter(RatAdd(WalkTokens(WalkStart, tokens).score,
                                            <<6 * (pos_emot - neg_emot), 10>>),
                                     text),
                       <<7 * (pos_emo - neg_emo), 10>>),
                CountIn(text, {33}) + CountIn(text, {63})),
            Len(SelectSeq(text, IsAlpha)),
            Len(SelectSeq(text, IsUpper))),
        Len(tokens) + pos_emot + neg_emot + pos_emo + neg_emo)

sentiment_score(text) ==
    IF text = <<>> THEN ExactScore(<<0, 1>>)
    ELSE ScoreOfCounts(text,
                       sentiment_tokenize(RepeatSubFrom(text, 1)),
                       CountPositiveEmoticons(text, 1),
                       CountNegativeEmoticons(text, 1),
                       EmojisIn(extract_emojis(text), POSITIVE_EMOJI),
                       EmojisIn(extract_emojis(text), NEGATIVE_EMOJI))

(***************************************************************************)
(* metrics.py : sentiment_stats                                            *)
(*                                                                         *)
(* A sum of scores is kept as its exact part q, the tanh values not        *)
(* evaluated (terms, in the order they were added) and a divisor den: the  *)
(* value is (q + the sum of the terms) / den.                              *)
(***************************************************************************)
SENTIMENT_BATCH_SIZE == 32

NoSum == [q |-> <<0, 1>>, terms |-> <<>>, den |-> 1]

\* total += score_val
SumAdd(sum, score) ==
    IF score.k = "exact" THEN [sum EXCEPT !.q = RatAdd(@, score.q)]
    ELSE [sum EXCEPT !.terms = Append(@, <<score.q, score.n>>)]

RECURSIVE SumAll(_, _)
SumAll(sum, scores) ==
    IF scores = <<>> THEN sum ELSE SumAll(SumAdd(sum, Head(scores)), Tail(scores))

\* total / count
SumDividedBy(sum, count) == [sum EXCEPT !.den = count]

\* What a scorer hands back for one text: a number, or something float()
\* rejects (None: TypeError; a word: ValueError), or a string that float()
\* parses ("0.5"), or an int too large for a float (10**400: OverflowError)
NotANumber == [k |-> "none", q |-> <<0, 1>>, n |-> 1]
NotNumeric == [k |-> "word", q |-> <<0, 1>>, n |-> 1]
Numeral(q) == [k |-> "numeral", q |-> RatNorm(q), n |-> 1]
HugeInt == [k |-> "huge", q |-> <<0, 1>>, n |-> 1]

\* float(score) raises an exception that is neither a TypeError nor a
\* ValueError, and the loop of sentiment_stats does not catch it
FloatRaises(score) == score.k = "huge"

\* try: score_val = float(score) / except (TypeError, ValueError): 0.0
ToFloat(score) ==
    IF score.k \in {"none", "word"} THEN ExactScore(<<0, 1>>)
    ELSE IF score.k = "numeral" THEN ExactScore(score.q)
    ELSE score

\* score_val of every score of the list
ToFloats(scores) == [i \in 1..Len(scores) |-> ToFloat(scores[i])]

\* A scorer: None (kind "none"), the scorer of the backend "off" (kind
\* "off"), or a function of the text given by a table (kind "table": the
\* scores of the texts listed, default for every other text) that raises
\* on a chunk holding one of the texts of raises_on
NoScorer == [kind |-> "none", table |-> <<>>, default |-> ExactScore(<<0, 1>>),
             raises_on |-> {}]
OffScorer == [NoScorer EXCEPT !.kind = "off"]
TableScorer(table, default, raises_on) ==
    [kind |-> "table", table |-> table, default |-> default,
     raises_on |-> raises_on]

\* What a call scorer(texts) does: it raises, or it returns a list
Raised == [raised |-> TRUE, scores |-> <<>>]
Returned(scores) == [raised |-> FALSE, scores |-> scores]

CallScorer(scorer, texts) ==
    IF scorer.kind = "off"
    THEN Returned([i \in 1..Len(texts) |-> ExactScore(<<0, 1>>)])
    ELSE IF \E i \in 1..Len(texts) : texts[i] \in scorer.raises_on THEN Raised
    ELSE Returned([i \in 1..Len(texts) |->
                     DictGet(scorer.table, texts[i], scorer.default)])

\* items.append((msg.sender_name, msg.timestamp_ms, msg.content)) for every
\* message with content
SentimentItems(messages) ==
    LET with_content == SelectSeq(messages, HasContent)
    IN  [i \in 1..Len(with_content) |->
            [sender |-> with_content[i].sender_name,
             ts |-> with_content[i].timestamp_ms,
             text |-> with_content[i].content.s]]

\* chunk = items[idx : idx + SENTIMENT_BATCH_SIZE]
ChunkAt(items, idx) ==
    SubSeq(items, idx + 1,
           IF idx + SENTIMENT_BATCH_SIZE < Len(items)
           THEN idx + SENTIMENT_BATCH_SIZE ELSE Len(items))

TextsOf(chunk) == [i \in 1..Len(chunk) |-> chunk[i].text]

\* except Exception: scores = [sentiment_score(text) for text in texts]
FallbackZero(texts) == [i \in 1..Len(texts) |-> ExactScore(<<0, 1>>)]
Fallback(texts) == [i \in 1..Len(texts) |-> sentiment_score(texts[i])]

\* if len(scores) != len(texts):
\*     scores = (list(scores) + [0.0] * len(texts))[: len(texts)]
FixLength(scores, n) ==
    IF Len(scores) # n
    THEN SubSeq(scores \o [i \in 1..n |-> ExactScore(<<0, 1>>)], 1, n)
    ELSE scores

\* scores of one chunk, given what the call of the scorer did
ChunkScores(chunk, outcome) ==
    ToFloats(FixLength(IF outcome.raised THEN Fallback(TextsOf(chunk))
                       ELSE outcome.scores,
                       Len(chunk)))

\* The counters of sentiment_stats
NoSentiment == [per_sender_total |-> <<>>, per_sender_count |-> <<>>,
                by_month |-> <<>>]

\* one turn of "for (sender, ts, _), score in zip(chunk, scores)"
AddScore(st, item, score_val, tz) ==
    LET label == MonthLabel([timestamp_ms |-> item.ts], tz)
    IN  [per_sender_total |->
            DictPut(st.per_sender_total, item.sender,
                    SumAdd(DictGet(st.per_sender_total, item.sender, NoSum),
                           score_val)),
         per_sender_count |->
            DictPut(st.per_sender_count, item.sender,
                    DictGet(st.per_sender_count, item.sender, 0) + 1),
         by_month |->
            DictPut(st.by_month, label,
                    Append(DictGet(st.by_month, label, <<>>), score_val))]

\* "for (sender, ts, _), score in zip(chunk, scores)": loop holds the
\* counters and what is left of chunk and of scores
RECURSIVE ZipLoop(_, _)
ZipLoop(loop, tz) ==
    IF loop.chunk = <<>> \/ loop.scores = <<>> THEN loop.st
    ELSE ZipLoop([st |-> AddScore(loop.st, Head(loop.chunk),
                                  Head(loop.scores), tz),
                  chunk |-> Tail(loop.chunk),
                  scores |-> Tail(loop.scores)],
                 tz)

AddScores(st, chunk, score_vals, tz) ==
    ZipLoop([st |-> st, chunk |-> chunk, scores |-> score_vals], tz)

\* for idx in range(0, len(items), SENTIMENT_BATCH_SIZE)
RECURSIVE ChunksFrom(_, _, _, _, _)
ChunksFrom(st, items, idx, scorer, tz) ==
    IF idx >= Len(items) THEN st
    ELSE LET chunk == ChunkAt(items, idx)
         IN  ChunksFrom(AddScores(st, chunk,
                                  ChunkScores(chunk,
                                              CallScorer(scorer, TextsOf(chunk))),
                                  tz),
                        items, idx + SENTIMENT_BATCH_SIZE, scorer, tz)

\* if scorer is None: every message with content gets sentiment_score
HeuristicLoop(items, tz) ==
    AddScores(NoSentiment, items, Fallback(TextsOf(items)), tz)

\* per_sender_stats and month_series from the counters
SentimentResult(st) ==
    [per_sender |->
        [i \in 1..Len(st.per_sender_total) |->
            LET sender == st.per_sender_total[i][1]
                total  == st.per_sender_total[i][2]
                count  == DictGet(st.per_sender_count, sender, 0)
            IN  <<sender,
                  [avg |-> IF count # 0 THEN SumDividedBy(total, count) ELSE NoSum,
                   total |-> total,
                   count |-> count]>>],
     by_month |->
        LET sorted == SortByLabel(<<>>, st.by_month)
        IN  [i \in 1..Len(sorted) |->
                <<sorted[i][1],
                  SumDividedBy(SumAll(NoSum, sorted[i][2]), Len(sorted[i][2]))>>]]

sentiment_stats(messages, tz, scorer) ==
    LET items == SentimentItems(messages)
    IN  SentimentResult(IF scorer.kind = "none" THEN HeuristicLoop(items, tz)
                        ELSE ChunksFrom(NoSentiment, items, 0, scorer, tz))

(***************************************************************************)
(* metrics.py : compute_metrics                                            *)
(***************************************************************************)
\* the bundle, from the values compute_metrics has computed
BundleOf(sorted_messages, tz, counts, participants, deltas, response_stats, words, phrases, emojis, media_counts, sentiment) ==
    [total_messages |-> Len(sorted_messages),
     text_messages |-> Len(SelectSeq(sorted_messages, HasContent)),
     participants |-> participants,
     message_counts |-> counts,
     message_shares |-> message_shares(counts, Len(sorted_messages)),
     top_sender |-> IF participants # <<>> THEN Text(participants[1])
                    ELSE NoText,
     response_time_deltas |-> deltas,
     response_time_stats |-> SetDefaults(response_stats, participants),
     response_time_overall |-> overall_response_stats(deltas),
     response_time_extremes |-> response_time_extremes(deltas),
     response_time_fastest |-> response_time_leaders(response_stats).fastest,
     response_time_slowest |-> response_time_leaders(response_stats).slowest,
     top_words |-> words.top_global,
     top_words_by_sender |-> words.top_per_sender,
     top_phrases |-> phrases.top_global,
     top_phrases_by_sender |-> phrases.top_per_sender,
     top_hours |-> top_hours(sorted_messages, tz),
     hourly_counts |-> hourly_counts(sorted_messages, tz),
     top_weekdays |-> top_weekdays(sorted_messages, tz),
     weekday_counts |-> weekday_counts(sorted_messages, tz),
     messages_per_month |-> messages_per_month(sorted_messages, tz),
     most_active_day |-> most_active_day(sorted_messages, tz),
     longest_gap |-> longest_gap(sorted_messages, tz),
     top_emojis |-> emojis.top_global,
     top_emojis_by_sender |-> emojis.top_per_sender,
     emoji_totals |-> emojis.totals,
     emoji_hearts |-> emojis.hearts,
     emoji_leader |-> emoji_leader(emojis.totals),
     media_counts |-> media_counts,
     media_leaders |-> media_leaders(media_counts),
     link_stats |-> link_stats(sorted_messages),
     night_stats |-> night_stats(sorted_messages, tz, 0, 5),
     last_seen_stats |-> last_seen_stats(sorted_messages, tz, 23),
     fast_reply_stats |-> fast_reply_stats(sorted_messages, 300000),
     sentiment_per_sender |-> sentiment.per_sender,
     sentiment_by_month |-> sentiment.by_month,
     longest_streak |-> longest_streak(sorted_messages),
     date_range |-> date_range(sorted_messages, tz),
     timezone |-> tz,
     avg_len_stats |-> average_message_length(sorted_messages),
     starters_stats |-> conversation_starters(sorted_messages, 21600000)]

\* participants and response_stats, of counts and deltas
MetricsOfCounts(sorted_messages, tz, counts, deltas, words, phrases, emojis, media_counts, sentiment) ==
    BundleOf(sorted_messages, tz, counts, RankParticipants(counts), deltas,
             summarize_response_times(deltas), words, phrases, emojis,
             media_counts, sentiment)

\* everything compute_metrics computes of sorted_messages
MetricsOfSorted(sorted_messages, tz, min_ms, max_ms, sentiment_scorer) ==
    MetricsOfCounts(sorted_messages, tz,
                    message_counts(sorted_messages),
                    response_time_deltas(sorted_messages, min_ms, max_ms),
                    word_stats(sorted_messages),
                    popular_phrases(sorted_messages),
                    emoji_stats(sorted_messages),
                    media_stats(sorted_messages),
                    sentiment_stats(sorted_messages, tz, sentiment_scorer))

\* The bundle compute_metrics returns; sentiment_scorer is NoScorer when
\* the argument is left out.
compute_metrics(messages, tz, min_ms, max_ms, sentiment_scorer) ==
    MetricsOfSorted(sort_messages(messages), tz, min_ms, max_ms,
                    sentiment_scorer)


(***************************************************************************)
(* report.py                                                               *)
(*                                                                         *)
(* A text the report formats from numbers is kept as a record of the       *)
(* numbers it shows.  A number rounded to one decimal is kept as its       *)
(* number of tenths; rounding is to the nearest, a tie to the even         *)
(* neighbour, on the exact value.                                          *)
(***************************************************************************)
S_na == <<110, 47, 97>>
S_User == <<85, 115, 101, 114>>

\* POLISH_MONTHS
POLISH_MONTHS ==
    <<<<115, 116, 121, 99, 122, 110, 105, 97>>,
      <<108, 117, 116, 101, 103, 111>>, <<109, 97, 114, 99, 97>>,
      <<107, 119, 105, 101, 116, 110, 105, 97>>, <<109, 97, 106, 97>>,
      <<99, 122, 101, 114, 119, 99, 97>>, <<108, 105, 112, 99, 97>>,
      <<115, 105, 101, 114, 112, 110, 105, 97>>,
      <<119, 114, 122, 101, 115, 110, 105, 97>>,
      <<112, 97, 122, 100, 122, 105, 101, 114, 110, 105, 107, 97>>,
      <<108, 105, 115, 116, 111, 112, 97, 100, 97>>,
      <<103, 114, 117, 100, 110, 105, 97>>>>

\* pl_days of build_stats, with the code points the source file holds
pl_days ==
    <<<<80, 111, 110, 105, 101, 100, 122, 105, 97, 197, 8218, 101, 107>>,
      <<87, 116, 111, 114, 101, 107>>, <<197, 353, 114, 111, 100, 97>>,
      <<67, 122, 119, 97, 114, 116, 101, 107>>,
      <<80, 105, 196, 8230, 116, 101, 107>>, <<83, 111, 98, 111, 116, 97>>,
      <<78, 105, 101, 100, 122, 105, 101, 108, 97>>>>

\* the whole number nearest to the quotient q, a tie going to the even one
RoundHalfEven(q) ==
    LET fl   == q[1] \div q[2]
        rem2 == 2 * (q[1] - fl * q[2])
    IN  IF rem2 < q[2] THEN fl
        ELSE IF rem2 > q[2] THEN fl + 1
        ELSE IF fl % 2 = 0 THEN fl ELSE fl + 1

\* round(x, 1) and f"{x:.1f}": the number of tenths
Round1(q) == RoundHalfEven(<<q[1] * 10, q[2]>>)

\* format_date_label, of a date label <<year, month, day>>:
\* f"{dt.day} {month} {dt.year}"
format_date_label(day) ==
    IF day.t = "none" THEN [t |-> "n/a", day |-> 0, month |-> <<>>, year |-> 0]
    ELSE [t |-> "date", day |-> day.date[3],
          month |-> POLISH_MONTHS[day.date[2]], year |-> day.date[1]]

\* format_minutes_short, of a time in milliseconds: "n/a", "<1 min" or the
\* tenths of f"{value:.1f} min"
format_minutes_short(value) ==
    IF value.t = "none" THEN [t |-> "n/a", tenths |-> 0]
    ELSE IF value.q[1] < 60000 * value.q[2] THEN [t |-> "<1 min", tenths |-> 0]
    ELSE [t |-> "min", tenths |-> RoundHalfEven(<<value.q[1], value.q[2] * 6000>>)]

\* format_duration, of a duration in milliseconds: the days, hours and
\* minutes the text names
format_duration(ms) ==
    LET total == ms \div 1000
    IN  [days |-> total \div 86400,
         hours |-> (total % 86400) \div 3600,
         minutes |-> ((total % 86400) % 3600) \div 60]

\* compute_peak_hour: max(range(len(hourly)), key=lambda i: hourly[i]) is
\* the first hour no hour exceeds
compute_peak_hour(hourly) ==
    LET idx == CHOOSE i \in 0..23 :
                  /\ \A j \in 0..23 : hourly[j] <= hourly[i]
                  /\ \A j \in 0..(i - 1) : hourly[j] < hourly[i]
    IN  [from |-> idx, to |-> (idx + 1) % 24]

\* vibe_labels = ["Humor", "Wsparcie", "Plotki", "Milosc", "Dramy"]
vibe_labels ==
    <<<<72, 117, 109, 111, 114>>, <<87, 115, 112, 97, 114, 99, 105, 101>>,
      <<80, 108, 111, 116, 107, 105>>, <<77, 105, 108, 111, 115, 99>>,
      <<68, 114, 97, 109, 121>>>>

\* top_vibe_labels: the labels of the two largest values1[idx] + values2[idx]
\* (halved in the source), labels of equal value in their order
top_vibe_labels(labels, values1, values2) ==
    LET combined == [idx \in 1..Len(labels) |->
                        <<labels[idx],
                          IF idx <= Len(values1) /\ idx <= Len(values2)
                          THEN values1[idx] + values2[idx] ELSE 0>>]
        ranked   == RankItems(<<>>, combined)
    IN  [i \in 1..(IF Len(ranked) < 2 THEN Len(ranked) ELSE 2) |-> ranked[i][1]]

\* max(0.0, min(100.0, x))
Clamp(q) == RatMax(<<0, 1>>, RatMin(<<100, 1>>, q))

\* the number an average of scores is, when all of them were exact numbers
\* (the scores of a supplied scorer)
AvgNumber(avg) == <<avg.q[1], avg.q[2] * avg.den>>

NoSentimentEntry == [avg |-> NoSum, total |-> NoSum, count |-> 0]

\* the largest of the quotients of a non-empty sequence
RECURSIVE MaxRatio(_)
MaxRatio(qs) ==
    IF Len(qs) = 1 THEN qs[1] ELSE RatMax(qs[1], MaxRatio(Tail(qs)))

\* emoji_ratio[user] and heart_ratio[user] of compute_radar
RatioOf(metrics, totals, user) ==
    LET count      == DictGet(metrics.message_counts, user, 0)
        total_msgs == IF count # 0 THEN count ELSE 1
    IN  <<DictGet(totals, user, 0), total_msgs>>

\* (ratio / max_ratio) * 100.0 if max_ratio else 0.0
Normalised(ratio, max_ratio) ==
    IF max_ratio[1] # 0
    THEN <<ratio[1] * max_ratio[2] * 100, ratio[2] * max_ratio[1]>>
    ELSE <<0, 1>>

\* max(emoji_ratio.values(), default=0.0): over the users handed in
MaxRatioOfAll(metrics, totals, users) ==
    IF metrics.participants = <<>> THEN <<0, 1>>
    ELSE MaxRatio([i \in 1..Len(metrics.participants) |->
                      RatioOf(metrics, totals, metrics.participants[i])])
MaxRatioOf(metrics, totals, users) ==
    IF users = <<>> THEN <<0, 1>>
    ELSE MaxRatio([i \in 1..Len(users) |-> RatioOf(metrics, totals, users[i])])

\* compute_radar: the datasets, each the label and the five values in tenths
\* (humor, positivity, gossip, love, drama)
compute_radar(metrics, users) ==
    LET max_emoji == MaxRatioOf(metrics, metrics.emoji_totals, users)
        max_heart == MaxRatioOf(metrics, metrics.emoji_hearts, users)
    IN  [idx \in 1..Len(users) |->
            LET user          == users[idx]
                avg_sentiment == AvgNumber(DictGet(metrics.sentiment_per_sender,
                                                   user, NoSentimentEntry).avg)
                positivity    == Clamp(RatAdd(<<50, 1>>,
                                              RatMul(avg_sentiment, <<15, 1>>)))
                drama         == Clamp(RatAdd(<<50, 1>>,
                                              RatMul(RatMax(RatNeg(avg_sentiment),
                                                            <<0, 1>>),
                                                     <<20, 1>>)))
                humor         == Normalised(RatioOf(metrics, metrics.emoji_totals,
                                                    user), max_emoji)
                love          == Normalised(RatioOf(metrics, metrics.emoji_hearts,
                                                    user), max_heart)
                gossip        == Clamp(DictGet(metrics.message_shares, user,
                                               <<0, 1>>))
            IN  [label |-> user,
                 values |-> <<Round1(humor), Round1(positivity), Round1(gossip),
                              Round1(love), Round1(drama)>>]]

\* emoji_list = [emoji for emoji, _ in top_emojis[:3]]
\* while len(emoji_list) < 3: emoji_list.append(".")
emoji_list_as_found(top_emojis) ==
    [i \in 1..(IF Len(top_emojis) < 3 THEN Len(top_emojis) ELSE 3) |->
        top_emojis[i][1]]
emoji_list(top_emojis) ==
    [i \in 1..3 |-> IF i <= Len(top_emojis) THEN top_emojis[i][1] ELSE <<46>>]

\* participants = list(metrics.get("participants", []))
\* if not participants: participants = ["User"]
ParticipantsAsGiven(participants) == participants
ParticipantsOrUser(participants) ==
    IF participants = <<>> THEN <<S_User>> ELSE participants

\* x.get("sender") or fallback, of a winner that may be None
SenderOr(winner, fallback) ==
    IF winner.t = "none" \/ winner.sender = <<>> THEN fallback ELSE winner.sender

\* x.get("sender", "n/a"), of a winner that may be None
SenderOrNa(winner) == IF winner.t = "none" THEN S_na ELSE winner.sender

\* media_score[user]
MediaScore(metrics, user) ==
    LET entry == DictGet(metrics.media_counts, user, NoMediaCounts)
    IN  entry.photos + entry.videos + entry.audio
        + DictGet(metrics.link_stats.per_sender, user, 0)

\* sum(entry.get(media_type, 0) for entry in media_counts.values())
MediaTotal(metrics, media_type) ==
    SumSeq([i \in 1..Len(metrics.media_counts) |->
               metrics.media_counts[i][2][media_type]])

\* max(d.items(), key=lambda x: x[1])[0] on quotients, "n/a" for no items
RatioLeader(d) == IF d = <<>> THEN S_na ELSE d[MaxRatioIndex(d)][1]

\* the same on whole numbers
CountLeader(d) == IF d = <<>> THEN S_na ELSE d[MaxItemIndex(d)][1]

\* build_stats reads users[0] where the bundle names no sender: an
\* IndexError when users is empty
BuildRaises(metrics, users) ==
    /\ users = <<>>
    /\ \/ SenderOr(metrics.fast_reply_stats.winner, <<>>) = <<>>
       \/ SenderOr(metrics.response_time_fastest, <<>>) = <<>>

NoStats == [raised |-> FALSE, returned |-> FALSE]

build_stats(metrics) ==
    LET participants == ParticipantsOrUser(metrics.participants)
        users        == FirstN(participants, 2)
        last_seen    == metrics.last_seen_stats
        pct(k)       == IF last_seen.total = 0
                        THEN (IF Len(users) > 1 THEN <<50, 1>> ELSE <<100, 1>>)
                        ELSE IF Len(users) >= k
                        THEN DictGet(last_seen.pct_by_sender, users[k], <<0, 1>>)
                        ELSE <<0, 1>>
        count(k)     == IF Len(users) >= k
                        THEN DictGet(last_seen.counts, users[k], 0) ELSE 0
        top_emojis   == metrics.top_emojis
        total_photos == MediaTotal(metrics, "photos")
        total_videos == MediaTotal(metrics, "videos")
        total_audio  == MediaTotal(metrics, "audio")
        total_links  == metrics.link_stats.total
        media_total  == total_photos + total_videos + total_audio + total_links
        media_score  == [i \in 1..Len(participants) |->
                            <<participants[i], MediaScore(metrics, participants[i])>>]
        gap          == metrics.longest_gap
        radar        == compute_radar(metrics, users)
        zeros        == [i \in 1..Len(vibe_labels) |-> 0]
        vibe_data1   == IF Len(radar) >= 1 THEN radar[1].values ELSE zeros
        vibe_data2   == IF Len(radar) > 1 THEN radar[2].values ELSE zeros
        wd_counts    == metrics.weekday_counts
        max_idx      == CHOOSE i \in 0..6 :
                            /\ \A j \in 0..6 : wd_counts[j] <= wd_counts[i]
                            /\ \A j \in 0..(i - 1) : wd_counts[j] < wd_counts[i]
    IN  IF BuildRaises(metrics, users) THEN [raised |-> TRUE, returned |-> FALSE]
        ELSE
        [raised |-> FALSE,
         returned |-> TRUE,
         users |-> users,
         total |-> metrics.total_messages,
         msgs |-> [i \in 1..Len(users) |->
                      DictGet(metrics.message_counts, users[i], 0)],
         hours |-> metrics.hourly_counts,
         peakHour |-> compute_peak_hour(metrics.hourly_counts),
         nightPct |-> RoundHalfEven(metrics.night_stats.pct),
         nightWinner |-> [name |-> SenderOrNa(metrics.night_stats.winner),
                          count |-> metrics.night_stats.winner.count],
         lastSeen |-> [name |-> SenderOrNa(last_seen.winner),
                       pct1 |-> Round1(pct(1)), pct2 |-> Round1(pct(2)),
                       count1 |-> count(1), count2 |-> count(2)],
         fastReplyWinner |-> SenderOr(metrics.fast_reply_stats.winner,
                                      users[IF Len(users) > 1 THEN 2 ELSE 1]),
         fastReplyPct |-> Round1(metrics.fast_reply_stats.winner.pct),
         avgTime |-> [i \in 1..Len(users) |->
                         IF DictHas(metrics.response_time_stats, users[i])
                         THEN format_minutes_short(
                                  DictGet(metrics.response_time_stats, users[i],
                                          EmptyResponseStats).avg_min)
                         ELSE format_minutes_short(NoQ)],
         emojis |-> emoji_list(top_emojis),
         favEmojiName |-> IF top_emojis # <<>>
                          THEN [t |-> "emoji", emoji |-> top_emojis[1][1],
                                count |-> top_emojis[1][2]]
                          ELSE [t |-> "n/a", emoji |-> <<>>, count |-> 0],
         media |-> [photo |-> total_photos + total_videos, voice |-> total_audio,
                    link |-> total_links],
         mediaKing |-> IF media_total > 0 THEN CountLeader(media_score) ELSE S_na,
         fastest |-> [user |-> SenderOr(metrics.response_time_fastest, users[1]),
                      time |-> format_minutes_short(
                                   metrics.response_time_fastest.avg_min)],
         longestGap |-> IF gap.t = "none"
                        THEN [t |-> "n/a", duration |-> format_duration(0),
                              start |-> <<>>, end |-> <<>>]
                        ELSE [t |-> "gap",
                              duration |-> format_duration(gap.duration_seconds),
                              start |-> DateLabel([timestamp_ms |-> gap.start.ts],
                                                  gap.start.tz),
                              end |-> DateLabel([timestamp_ms |-> gap.end.ts],
                                                gap.end.tz)],
         topDate |-> format_date_label(metrics.most_active_day),
         vibeLabels |-> vibe_labels,
         vibeData1 |-> vibe_data1,
         vibeData2 |-> vibe_data2,
         vibeMain |-> top_vibe_labels(vibe_labels, vibe_data1, vibe_data2),
         avgLen |-> [i \in 1..Len(users) |->
                        Round1(DictGet(metrics.avg_len_stats, users[i], <<0, 1>>))],
         yapMaster |-> RatioLeader(metrics.avg_len_stats),
         starters |-> [i \in 1..Len(users) |->
                          DictGet(metrics.starters_stats, users[i], 0)],
         starterKing |-> CountLeader(metrics.starters_stats),
         topPhrases |-> [i \in 1..3 |->
                            IF i <= Len(metrics.top_phrases)
                            THEN [text |-> metrics.top_phrases[i][1],
                                  count |-> metrics.top_phrases[i][2]]
                            ELSE [text |-> <<46, 46, 46>>, count |-> 0]],
         weekdays |-> wd_counts,
         favDay |-> IF \E j \in 0..6 : wd_counts[j] # 0
                    THEN pl_days[max_idx + 1] ELSE S_na]

\* <<min_response_seconds, max_response_seconds>> in milliseconds: the
\* defaults of the command line (1 s, 12 h) and a narrow window
ResponseBounds == {<<1000, 43200000>>, <<2000, 3000>>}

MakeMessage(sender, ts) ==
    [NoMessage EXCEPT !.sender_name = sender, !.timestamp_ms = ts]

MetricMessages == {MakeMessage(s, t) : s \in MetricSenders, t \in MetricTimestamps}

\* no bundle yet: compute_metrics has not returned
NoBundle == [returned |-> FALSE]

MetricsStart ==
    /\ cm_pc = "input"
    /\ cm_messages \in SeqsUpTo(MetricMessages, MaxMessages)
    /\ cm_tz \in TimezoneOffsets
    /\ cm_bounds \in ResponseBounds
    /\ cm_out = NoBundle

MetricsIdle ==
    /\ cm_pc = "idle"
    /\ cm_messages = <<>>
    /\ cm_tz = 0
    /\ cm_bounds = <<0, 0>>
    /\ cm_out = NoBundle

ComputeMetrics ==
    /\ cm_pc = "input"
    /\ cm_out' = compute_metrics(cm_messages, cm_tz, cm_bounds[1], cm_bounds[2], NoScorer)
    /\ cm_pc' = "done"
    /\ UNCHANGED <<cm_messages, cm_tz, cm_bounds>>
    /\ UNCHANGED notMetrics

MetricsNext == ComputeMetrics

(***************************************************************************)
(* Specification of percentile: a list and a percentage are drawn, then    *)
(* the function is applied.                                                *)
(***************************************************************************)
MaxValues == 4

SampleValues == {0, 1, 2, 5}

\* 90 is the percentage summarize_delta_list asks for
Percentages == {0, 25, 50, 90, 100}

PercentileStart ==
    /\ pt_pc = "input"
    /\ pt_values \in SeqsUpTo(SampleValues, MaxValues)
    /\ pt_given = pt_values
    /\ pt_p \in Percentages
    /\ pt_result = NoQ

PercentileIdle ==
    /\ pt_pc = "idle"
    /\ pt_values = <<>>
    /\ pt_given = <<>>
    /\ pt_p = 0
    /\ pt_result = NoQ

\* sorted() copies: the list of the caller stays as it is
ComputePercentile ==
    /\ pt_pc = "input"
    /\ pt_result' = percentile(pt_values, pt_p)
    /\ pt_values' = pt_values
    /\ pt_pc' = "done"
    /\ UNCHANGED <<pt_given, pt_p>>
    /\ UNCHANGED notPercentile

PercentileNext == ComputePercentile

(***************************************************************************)
(* Specification of the text analysis of one message content, in the       *)
(* order of compute_metrics: word_stats tokenizes it, popular_phrases      *)
(* tokenizes it again with tokenize_raw, generates the n-grams for n = 2   *)
(* to 5 and judges each with is_meaningful_phrase.                         *)
(***************************************************************************)
MaxWords == 3

S_dom == <<100, 111, 109>>
S_kot == <<107, 111, 116>>
S_to == <<116, 111>>
\* "zeby" written with U+017C, a stopword only after normalize_token
S_zeby == <<380, 101, 98, 121>>
S_aaa == <<97, 97, 97>>
S_url == <<119, 119, 119, 46, 97>>

\* content words, stopwords, a one-letter word, a number, a repeated letter,
\* a link, and nothing at all
TextWords == {S_dom, S_kot, S_to, S_zeby, S_x, S_12, S_aaa, S_url, <<>>}

\* a space, and an underscore, an exclamation mark and a tab in a row
TextSeparators == {<<32>>, <<95, 33, 9>>}

RECURSIVE TextsOfWords(_)
TextsOfWords(n) ==
    IF n = 1 THEN TextWords
    ELSE {t \o sep \o w : t \in TextsOfWords(n - 1),
                          sep \in TextSeparators, w \in TextWords}

TextSet == UNION {TextsOfWords(n) : n \in 1..MaxWords}

TextStart ==
    /\ tx_pc = "input"
    /\ tx_text \in TextSet
    /\ tx_tokens = <<>>
    /\ tx_raw = <<>>
    /\ tx_n = 0
    /\ tx_phrase = <<>>
    /\ tx_meaningful = FALSE

TextIdle ==
    /\ tx_pc = "idle"
    /\ tx_text = <<>>
    /\ tx_tokens = <<>>
    /\ tx_raw = <<>>
    /\ tx_n = 0
    /\ tx_phrase = <<>>
    /\ tx_meaningful = FALSE

\* word_stats: tokens = tokenize(msg.content)
Tokenize ==
    /\ tx_pc = "input"
    /\ tx_tokens' = tokenize(tx_text)
    /\ tx_pc' = "tokenized"
    /\ UNCHANGED <<tx_text, tx_raw, tx_n, tx_phrase, tx_meaningful>>
    /\ UNCHANGED notText

\* popular_phrases: tokens = tokenize_raw(msg.content)
TokenizeRaw ==
    /\ tx_pc = "tokenized"
    /\ tx_raw' = tokenize_raw(tx_text)
    /\ tx_pc' = "raw"
    /\ UNCHANGED <<tx_text, tx_tokens, tx_n, tx_phrase, tx_meaningful>>
    /\ UNCHANGED notText

\* popular_phrases: one phrase of generate_ngrams(tokens, n), n in range(2, 6)
TakeNgram ==
    /\ tx_pc = "raw"
    /\ \E n \in 2..5 :
         LET ngrams == generate_ngrams(tx_raw, n)
         IN  \E i \in 1..Len(ngrams) :
                /\ tx_n' = n
                /\ tx_phrase' = ngrams[i]
    /\ tx_pc' = "phrase"
    /\ UNCHANGED <<tx_text, tx_tokens, tx_raw, tx_meaningful>>
    /\ UNCHANGED notText

\* popular_phrases: is_meaningful_phrase(p)
JudgePhrase ==
    /\ tx_pc = "phrase"
    /\ tx_meaningful' = is_meaningful_phrase(tx_phrase)
    /\ tx_pc' = "judged"
    /\ UNCHANGED <<tx_text, tx_tokens, tx_raw, tx_n, tx_phrase>>
    /\ UNCHANGED notText

TextNext ==
    \/ Tokenize
    \/ TokenizeRaw
    \/ TakeNgram
    \/ JudgePhrase

(***************************************************************************)
(* Specification of the report pipeline: the messages, the timezone and    *)
(* the scorer are drawn, compute_metrics builds the bundle, then           *)
(* build_stats projects it.                                                *)
(***************************************************************************)
MaxReportMessages == 3

\* "dom kot las gaj", a red heart, and four emojis that are no hearts
S_dom_kot_las_gaj == <<100, 111, 109, 32, 107, 111, 116, 32, 108, 97, 115,
                       32, 103, 97, 106>>
S_heart == <<10084>>
S_faces == <<128512, 127881, 9728, 9986>>

ContentMessage(sender, ts, content) ==
    [NoMessage EXCEPT !.sender_name = sender, !.timestamp_ms = ts,
                      !.content = content]

ReportMessages ==
    {ContentMessage(S_Al, 0, Text(S_dom_kot_las_gaj)),
     ContentMessage(S_Al, 0, Text(S_heart)),
     ContentMessage(S_Al, 1000, NoText),
     ContentMessage(S_Bo, 0, NoText),
     ContentMessage(S_Bo, 0, Text(S_heart)),
     ContentMessage(S_Cy, 0, NoText),
     ContentMessage(S_Cy, 0, Text(S_dom_kot_las_gaj)),
     ContentMessage(S_Cy, 0, Text(S_faces))}

\* the scorer of the backend "off", and a scorer that finds the words
\* friendly (4.0), the heart hostile (-4.0) and everything else mild (0.3)
ReportScorers ==
    {OffScorer,
     TableScorer(<<<<S_dom_kot_las_gaj, ExactScore(<<4, 1>>)>>,
                   <<S_heart, ExactScore(<<-4, 1>>)>>>>,
                 ExactScore(<<3, 10>>), {})}

\* min_response_seconds and max_response_seconds as the command line
\* leaves them: 1 s and 12 h
DefaultMinMs == 1000
DefaultMaxMs == 43200000

ReportStart ==
    /\ rp_pc = "input"
    /\ rp_messages \in SeqsUpTo(ReportMessages, MaxReportMessages)
    /\ rp_tz \in TimezoneOffsets
    /\ rp_scorer \in ReportScorers
    /\ rp_metrics = NoBundle
    /\ rp_stats = NoStats

\* metrics = compute_metrics(messages, tz=tz, ..., sentiment_scorer=scorer)
ComputeBundle ==
    /\ rp_pc = "input"
    /\ rp_metrics' = compute_metrics(rp_messages, rp_tz, DefaultMinMs,
                                     DefaultMaxMs, rp_scorer)
    /\ rp_pc' = "computed"
    /\ UNCHANGED <<rp_messages, rp_tz, rp_scorer, rp_stats>>
    /\ UNCHANGED notReport

\* stats = build_stats(metrics), of render_report
BuildStats ==
    /\ rp_pc = "computed"
    /\ rp_stats' = build_stats(rp_metrics)
    /\ rp_pc' = IF build_stats(rp_metrics).raised THEN "raised" ELSE "built"
    /\ UNCHANGED <<rp_messages, rp_tz, rp_scorer, rp_metrics>>
    /\ UNCHANGED notReport

ReportNext ==
    \/ ComputeBundle
    \/ BuildStats

(***************************************************************************)
(* Specification of sentiment_stats with a scorer supplied: the stream is  *)
(* drawn, then the loop takes one chunk at a time; the call of the scorer  *)
(* returns its scores or raises.                                           *)
(***************************************************************************)
MaxStream == 90

S_super == <<115, 117, 112, 101, 114>>
S_ok == <<111, 107>>

\* The i-th message of the stream: the senders alternate, one message in
\* four has no content
StreamMessage(i) ==
    ContentMessage(IF i % 2 = 1 THEN S_Al ELSE S_Bo, i * 1000,
                   CASE i % 4 = 1 -> Text(S_super)
                     [] i % 4 = 2 -> Text(S_ok)
                     [] i % 4 = 3 -> NoText
                     [] OTHER     -> Text(S_dom))

Stream(n) == [i \in 1..n |-> StreamMessage(i)]

\* a scorer whose scores differ from those of sentiment_score
StreamScorer ==
    TableScorer(<<<<S_super, ExactScore(<<1, 4>>)>>,
                  <<S_ok, ExactScore(<<-1, 4>>)>>>>,
                ExactScore(<<1, 8>>), {})

SentimentStart ==
    /\ sn_pc = "loop"
    /\ sn_items \in {SentimentItems(Stream(n)) : n \in 0..MaxStream}
    /\ sn_idx = 0
    /\ sn_calls = <<>>
    /\ sn_st = NoSentiment
    /\ sn_out = SentimentResult(NoSentiment)

\* one turn of "for idx in range(0, len(items), SENTIMENT_BATCH_SIZE)"
ScoreChunk ==
    /\ sn_pc = "loop"
    /\ sn_idx < Len(sn_items)
    /\ \E raises \in BOOLEAN :
        LET chunk   == ChunkAt(sn_items, sn_idx)
            texts   == TextsOf(chunk)
            outcome == IF raises THEN Raised ELSE CallScorer(StreamScorer, texts)
        IN  /\ sn_calls' = Append(sn_calls, [texts |-> texts, raised |-> raises])
            /\ sn_st' = AddScores(sn_st, chunk, ChunkScores(chunk, outcome), 0)
    /\ sn_idx' = sn_idx + SENTIMENT_BATCH_SIZE
    /\ UNCHANGED <<sn_pc, sn_items, sn_out>>
    /\ UNCHANGED notSentiment

\* the loop is over: per_sender_stats and month_series are returned
ReturnStats ==
    /\ sn_pc = "loop"
    /\ sn_idx >= Len(sn_items)
    /\ sn_out' = SentimentResult(sn_st)
    /\ sn_pc' = "done"
    /\ UNCHANGED <<sn_items, sn_idx, sn_calls, sn_st>>
    /\ UNCHANGED notSentiment

SentimentNext ==
    \/ ScoreChunk
    \/ ReturnStats

(***************************************************************************)
(* Specification of repeated runs: a caller runs compute_metrics and       *)
(* build_stats on its list, runs them on other inputs, then runs them on   *)
(* its list again.                                                         *)
(***************************************************************************)
MaxRunMessages == 2
MaxOtherRuns == 2

RunMessages ==
    {ContentMessage(s, t, c) : s \in {S_Al, S_Bo}, t \in {0, 1000},
                               c \in {NoText, Text(S_heart)}}

\* the inputs of the runs in between
OtherLists ==
    {<<>>,
     <<ContentMessage(S_Cy, 3000, Text(S_faces)),
       ContentMessage(S_Al, 0, Text(S_dom_kot_las_gaj))>>}

\* compute_metrics(messages, tz, sentiment_scorer), then build_stats
RunWith(metrics) == <<metrics, build_stats(metrics)>>

RunOf(messages, tz, scorer) ==
    RunWith(compute_metrics(messages, tz, DefaultMinMs, DefaultMaxMs, scorer))

NoRun == <<NoBundle, NoStats>>

\* the list of the caller after a run: compute_metrics sorts a copy,
\* sorted(messages, ...), never the list itself
ListSortedInPlace(messages) == sort_messages(messages)
ListAfterRun(messages) == messages

RunsStart ==
    /\ rn_pc = "input"
    /\ rn_list \in SeqsUpTo(RunMessages, MaxRunMessages)
    /\ rn_given = rn_list
    /\ rn_input \in TimezoneOffsets \X ReportScorers
    /\ rn_first = NoRun
    /\ rn_between = 0
    /\ rn_other = NoRun
    /\ rn_second = NoRun

FirstRun ==
    /\ rn_pc = "input"
    /\ rn_first' = RunOf(rn_list, rn_input[1], rn_input[2])
    /\ rn_list' = ListAfterRun(rn_list)
    /\ rn_pc' = "first"
    /\ UNCHANGED <<rn_given, rn_input, rn_between, rn_other, rn_second>>
    /\ UNCHANGED notRuns

OtherRun ==
    /\ rn_pc = "first"
    /\ rn_between < MaxOtherRuns
    /\ \E other \in OtherLists : rn_other' = RunOf(other, 0, OffScorer)
    /\ rn_between' = rn_between + 1
    /\ UNCHANGED <<rn_pc, rn_list, rn_given, rn_input, rn_first, rn_second>>
    /\ UNCHANGED notRuns

SecondRun ==
    /\ rn_pc = "first"
    /\ rn_second' = RunOf(rn_list, rn_input[1], rn_input[2])
    /\ rn_list' = ListAfterRun(rn_list)
    /\ rn_pc' = "second"
    /\ UNCHANGED <<rn_given, rn_input, rn_first, rn_between, rn_other>>
    /\ UNCHANGED notRuns

RunsNext ==
    \/ FirstRun
    \/ OtherRun
    \/ SecondRun

(***************************************************************************)
(* cli.py : main.  What the command line names (the timezone, the input    *)
(* file, the model, the output directory) decides how each call ends.      *)
(***************************************************************************)
MaxRetained == 2

CliArgs ==
    [timezone_ok : BOOLEAN,        \* ZoneInfo(args.timezone) returns
     input_ok    : BOOLEAN,        \* load_messages(args.input) returns
     retained    : 0..MaxRetained, \* len(messages)
     skipped     : 0..1,           \* skipped
     backend     : {"hf", "heuristic", "off"},
     model_ok    : BOOLEAN,        \* get_sentiment_scorer returns
     metrics_ok  : BOOLEAN,        \* compute_metrics returns
     output_ok   : BOOLEAN]        \* render_report returns

CliStart ==
    /\ cl_pc = "start"
    /\ cl_args \in CliArgs
    /\ cl_messages = 0
    /\ cl_calls = <<>>
    /\ cl_stderr = <<>>
    /\ cl_stdout = <<>>
    /\ cl_exit = -1

\* print(..., file=sys.stderr); return code
Fail(line, code) ==
    /\ cl_stderr' = Append(cl_stderr, line)
    /\ cl_exit' = code
    /\ cl_pc' = "returned"

\* tz = ZoneInfo(args.timezone)
ResolveTimezone ==
    /\ cl_pc = "start"
    /\ cl_calls' = Append(cl_calls, "ZoneInfo")
    /\ IF cl_args.timezone_ok
       THEN cl_pc' = "timezone" /\ UNCHANGED <<cl_stderr, cl_exit>>
       ELSE Fail("Invalid timezone", 2)
    /\ UNCHANGED <<cl_args, cl_messages, cl_stdout>>
    /\ UNCHANGED notCli

\* messages, skipped = load_messages(args.input)
LoadMessages ==
    /\ cl_pc = "timezone"
    /\ cl_calls' = Append(cl_calls, "load_messages")
    /\ IF cl_args.input_ok
       THEN /\ cl_pc' = "loaded"
            /\ cl_messages' = cl_args.retained
            /\ UNCHANGED <<cl_stderr, cl_exit>>
       ELSE Fail("Failed to load JSON", 1) /\ UNCHANGED cl_messages
    /\ UNCHANGED <<cl_args, cl_stdout>>
    /\ UNCHANGED notCli

\* "not messages", of a list of count messages
NeverEmpty(count) == FALSE
IsEmpty(count) == count = 0

\* if not messages: ... return 1
CheckMessages ==
    /\ cl_pc = "loaded"
    /\ IF ~IsEmpty(cl_messages)
       THEN cl_pc' = "checked" /\ UNCHANGED <<cl_stderr, cl_exit>>
       ELSE Fail("No valid messages found.", 1)
    /\ UNCHANGED <<cl_args, cl_messages, cl_calls, cl_stdout>>
    /\ UNCHANGED notCli

\* the sentiment backend: hf loads the model, heuristic leaves the scorer
\* None, off takes the scorer of zeros
ResolveScorer ==
    /\ cl_pc = "checked"
    /\ IF cl_args.backend = "hf"
       THEN /\ cl_calls' = Append(cl_calls, "get_sentiment_scorer")
            /\ IF cl_args.model_ok
               THEN cl_pc' = "scorer" /\ UNCHANGED <<cl_stderr, cl_exit>>
               ELSE Fail("SentimentModelError", 2)
       ELSE /\ cl_pc' = "scorer"
            /\ UNCHANGED <<cl_calls, cl_stderr, cl_exit>>
    /\ UNCHANGED <<cl_args, cl_messages, cl_stdout>>
    /\ UNCHANGED notCli

\* metrics = compute_metrics(...)
CallComputeMetrics ==
    /\ cl_pc = "scorer"
    /\ cl_calls' = Append(cl_calls, "compute_metrics")
    /\ IF cl_args.metrics_ok
       THEN cl_pc' = "computed" /\ UNCHANGED <<cl_stderr, cl_exit>>
       ELSE Fail("Failed to compute metrics", 1)
    /\ UNCHANGED <<cl_args, cl_messages, cl_stdout>>
    /\ UNCHANGED notCli

\* report_path = render_report(...); the two prints; return 0.  An
\* exception of render_report leaves main.
RenderReport ==
    /\ cl_pc = "computed"
    /\ cl_calls' = Append(cl_calls, "render_report")
    /\ IF cl_args.output_ok
       THEN /\ cl_stdout' = cl_stdout \o <<"Report written to">>
                            \o (IF cl_args.skipped # 0
                                THEN <<"Skipped entries">> ELSE <<>>)
            /\ cl_exit' = 0
            /\ cl_pc' = "returned"
       ELSE /\ cl_pc' = "raised"
            /\ UNCHANGED <<cl_stdout, cl_exit>>
    /\ UNCHANGED <<cl_args, cl_messages, cl_stderr>>
    /\ UNCHANGED notCli

CliNext ==
    \/ ResolveTimezone
    \/ LoadMessages
    \/ CheckMessages
    \/ ResolveScorer
    \/ CallComputeMetrics
    \/ RenderReport

(***************************************************************************)
(* Specification of compute_metrics on a stream given in any order: the    *)
(* timestamps lie around the threshold of conversation_starters (6 h) and  *)
(* around local midnight.                                                  *)
(***************************************************************************)
MaxOrderMessages == 3

OrderSenders == {S_Al, S_Bo}

\* 00:00:00, 00:00:01, 06:00:01, 23:00:00 and 23:59:59 of the first day
\* (UTC) and 00:00:00 of the second
OrderTimestamps == {0, 1000, 21601000, 82800000, 86399000, 86400000}

OrderMessages == {MakeMessage(s, t) : s \in OrderSenders, t \in OrderTimestamps}

\* UTC and one hour behind it
OrderOffsets == {0, -3600}

OrderStart ==
    /\ od_pc = "input"
    /\ od_messages \in SeqsUpTo(OrderMessages, MaxOrderMessages)
    /\ od_tz \in OrderOffsets
    /\ od_out = NoBundle

ComputeOrdered ==
    /\ od_pc = "input"
    /\ od_out' = compute_metrics(od_messages, od_tz, DefaultMinMs, DefaultMaxMs,
                                 NoScorer)
    /\ od_pc' = "done"
    /\ UNCHANGED <<od_messages, od_tz>>
    /\ UNCHANGED notOrder

OrderNext == ComputeOrdered

(***************************************************************************)
(* Specification of compute_metrics on messages with placeholder markers:  *)
(* texts with "User", "UNSENT" and "superuser", and three texts of four    *)
(* words each, twelve different words in all.                              *)
(***************************************************************************)
MaxWordMessages == 3

\* "dom kot"
W_plain ==
    <<100, 111, 109, 32, 107, 111, 116>>

\* "dom dom las"
W_twice ==
    <<100, 111, 109, 32, 100, 111, 109, 32, 108, 97, 115>>

\* "User dom kot"
W_user ==
    <<85, 115, 101, 114, 32, 100, 111, 109, 32, 107, 111, 116>>

\* "kot UNSENT las (heavy black heart)"
W_unsent ==
    <<107, 111, 116, 32, 85, 78, 83, 69, 78, 84, 32, 108, 97, 115, 32, 10084>>

\* "gaj las lek mak"
W_first ==
    <<103, 97, 106, 32, 108, 97, 115, 32, 108, 101, 107, 32, 109, 97, 107>>

\* "rak sok tor wir"
W_second ==
    <<114, 97, 107, 32, 115, 111, 107, 32, 116, 111, 114, 32, 119, 105, 114>>

\* "nos bal dom kot"
W_third ==
    <<110, 111, 115, 32, 98, 97, 108, 32, 100, 111, 109, 32, 107, 111, 116>>

\* "superuser dom"
W_super ==
    <<115, 117, 112, 101, 114, 117, 115, 101, 114, 32, 100, 111, 109>>

S_las == <<108, 97, 115>>

WordMessages ==
    {ContentMessage(S_Al, 0, Text(W_plain)),
     ContentMessage(S_Bo, 1000, Text(W_twice)),
     ContentMessage(S_Al, 2000, Text(W_user)),
     ContentMessage(S_Bo, 3000, Text(W_unsent)),
     ContentMessage(S_Al, 4000, Text(W_first)),
     ContentMessage(S_Al, 5000, Text(W_second)),
     ContentMessage(S_Bo, 6000, Text(W_third)),
     ContentMessage(S_Bo, 7000, Text(W_super)),
     ContentMessage(S_Al, 8000, NoText)}

WordsStart ==
    /\ wd_pc = "input"
    /\ wd_messages \in SeqsUpTo(WordMessages, MaxWordMessages)
    /\ wd_out = NoBundle

ComputeWords ==
    /\ wd_pc = "input"
    /\ wd_out' = compute_metrics(wd_messages, 0, DefaultMinMs, DefaultMaxMs,
                                 NoScorer)
    /\ wd_pc' = "done"
    /\ UNCHANGED wd_messages
    /\ UNCHANGED notWords

WordsNext == ComputeWords

(***************************************************************************)
(* Specification of the token walk of sentiment_score: the tokens of a     *)
(* text are drawn, then the loop takes them one at a time.                 *)
(***************************************************************************)
MaxWalkTokens == 4

S_nie == <<110, 105, 101>>
S_bardzo == <<98, 97, 114, 100, 122, 111>>
S_troche == <<116, 114, 111, 99, 104, 101>>
S_dobry == <<100, 111, 98, 114, 121>>
S_okropnie == <<111, 107, 114, 111, 112, 110, 105, 101>>

\* a negation, an intensifier, a dampener, a positive and a negative word
\* of the lexicon, a word of no table, and "super", which is an intensifier
\* and a word of the lexicon
WalkWords == {S_nie, S_bardzo, S_troche, S_dobry, S_okropnie, S_dom, S_super}

WalkSetUp ==
    /\ wk_pc = "loop"
    /\ wk_tokens \in SeqsUpTo(WalkWords, MaxWalkTokens)
    /\ wk_idx = 0
    /\ wk_w = WalkStart
    /\ wk_trace = <<>>

\* for token in tokens: one turn
WalkToken ==
    /\ wk_pc = "loop"
    /\ wk_idx < Len(wk_tokens)
    /\ wk_w' = WalkStep(wk_w, wk_tokens[wk_idx + 1])
    /\ wk_trace' = Append(wk_trace, wk_w')
    /\ wk_idx' = wk_idx + 1
    /\ UNCHANGED <<wk_pc, wk_tokens>>
    /\ UNCHANGED notWalk

\* the loop is over
WalkOver ==
    /\ wk_pc = "loop"
    /\ wk_idx = Len(wk_tokens)
    /\ wk_pc' = "done"
    /\ UNCHANGED <<wk_tokens, wk_idx, wk_w, wk_trace>>
    /\ UNCHANGED notWalk

WalkNext ==
    \/ WalkToken
    \/ WalkOver

(***************************************************************************)
(* Specification of the winners of build_stats: messages with photos,      *)
(* links, texts of several lengths, at night, late in the evening of two   *)
(* days and a minute apart are drawn, compute_metrics builds the bundle,   *)
(* then build_stats projects it.                                           *)
(***************************************************************************)
MaxWinnerMessages == 3

\* "dom las" and "http://x"
S_dom_las == <<100, 111, 109, 32, 108, 97, 115>>
S_link == S_http \o <<120>>

WithPhoto(msg) == [msg EXCEPT !.photo_count = 1]

\* 00:00:00, 00:01:00, 00:02:00 and 23:00:00 of the first day and 23:00:00
\* of the second day, UTC
WinnerMessages ==
    {ContentMessage(S_Al, 0, Text(S_dom)),
     ContentMessage(S_Bo, 0, Text(S_kot)),
     WithPhoto(ContentMessage(S_Bo, 0, NoText)),
     ContentMessage(S_Al, 60000, Text(S_kot)),
     WithPhoto(ContentMessage(S_Al, 60000, NoText)),
     ContentMessage(S_Bo, 60000, Text(S_dom_las)),
     ContentMessage(S_Bo, 120000, Text(S_dom)),
     ContentMessage(S_Al, 120000, Text(S_link)),
     ContentMessage(S_Bo, 82800000, Text(S_dom)),
     WithPhoto(ContentMessage(S_Al, 82800000, Text(S_kot))),
     ContentMessage(S_Al, 169200000, Text(S_dom)),
     ContentMessage(S_Bo, 169200000, Text(S_link))}

WinnersStart ==
    /\ wn_pc = "input"
    /\ wn_messages \in SeqsUpTo(WinnerMessages, MaxWinnerMessages)
    /\ wn_metrics = NoBundle
    /\ wn_stats = NoStats

\* metrics = compute_metrics(messages, tz=tz, ...)
ComputeWinners ==
    /\ wn_pc = "input"
    /\ wn_metrics' = compute_metrics(wn_messages, 0, DefaultMinMs, DefaultMaxMs,
                                     NoScorer)
    /\ wn_pc' = "computed"
    /\ UNCHANGED <<wn_messages, wn_stats>>
    /\ UNCHANGED notWinners

\* stats = build_stats(metrics)
ProjectWinners ==
    /\ wn_pc = "computed"
    /\ wn_stats' = build_stats(wn_metrics)
    /\ wn_pc' = IF build_stats(wn_metrics).raised THEN "raised" ELSE "built"
    /\ UNCHANGED <<wn_messages, wn_metrics>>
    /\ UNCHANGED notWinners

WinnersNext ==
    \/ ComputeWinners
    \/ ProjectWinners

(***************************************************************************)
(* Specification of the response summaries of compute_metrics: a stream    *)
(* of two senders is drawn message by message, each message a reply or a   *)
(* follow-up at a gap below, at, between, at and above the bounds, which   *)
(* are one and two minutes here; compute_metrics builds the bundle.        *)
(***************************************************************************)
MaxReplyMessages == 5

ReplyMinMs == 60000
ReplyMaxMs == 120000

ReplyGaps == {59000, 60000, 75000, 120000, 121000}

\* a step is the sender (the other one, or the same again) and the gap
ReplySteps == {<<"other", g>> : g \in ReplyGaps} \cup {<<"same", 75000>>}

OtherOf(name) == IF name = S_Al THEN S_Bo ELSE S_Al

RECURSIVE StreamOf(_, _)
StreamOf(stream, steps) ==
    IF steps = <<>> THEN stream
    ELSE LET last == stream[Len(stream)]
             step == Head(steps)
         IN  StreamOf(Append(stream,
                             MakeMessage(IF step[1] = "other"
                                         THEN OtherOf(last.sender_name)
                                         ELSE last.sender_name,
                                         last.timestamp_ms + step[2])),
                      Tail(steps))

ReplyStreams ==
    {<<>>} \cup {StreamOf(<<MakeMessage(first, 0)>>, steps) :
                    first \in {S_Al, S_Bo},
                    steps \in SeqsUpTo(ReplySteps, MaxReplyMessages - 1)}

RepliesStart ==
    /\ rs_pc = "input"
    /\ rs_messages \in ReplyStreams
    /\ rs_out = NoBundle

\* compute_metrics(messages, tz, min_response_seconds, max_response_seconds)
ComputeReplies ==
    /\ rs_pc = "input"
    /\ rs_out' = compute_metrics(rs_messages, 0, ReplyMinMs, ReplyMaxMs, NoScorer)
    /\ rs_pc' = "computed"
    /\ UNCHANGED rs_messages
    /\ UNCHANGED notReplies

RepliesNext == ComputeReplies

(***************************************************************************)
(* Specification of sentiment_stats with a scorer that does as it likes:   *)
(* the messages are drawn (fewer than a chunk), then sentiment_stats calls *)
(* the scorer, which raises or returns a list of any length holding        *)
(* numbers and other values.                                               *)
(***************************************************************************)
MaxScoredMessages == 3

ScoredMessages ==
    {ContentMessage(S_Al, 0, Text(S_ok)),
     ContentMessage(S_Bo, 1000, Text(S_dom)),
     ContentMessage(S_Al, 2000, NoText),
     ContentMessage(S_Bo, 3000, Text(S_ok))}

\* 0.25, None, "good", "0.5" and 10**400
ScoreValues ==
    {ExactScore(<<1, 4>>), NotANumber, NotNumeric, Numeral(<<1, 2>>), HugeInt}

\* what scorer(texts) may do on n texts
ScorerOutcomes(n) ==
    {Raised} \cup {Returned(scores) : scores \in SeqsUpTo(ScoreValues, n + 1)}

ScoresStart ==
    /\ sc_pc = "input"
    /\ sc_messages \in SeqsUpTo(ScoredMessages, MaxScoredMessages)
    /\ sc_outcome = Raised
    /\ sc_st = NoSentiment
    /\ sc_out = SentimentResult(NoSentiment)

\* sentiment_stats(messages, tz, scorer) on one chunk: the scorer is not
\* called when there is no item
ScoreMessages ==
    /\ sc_pc = "input"
    /\ LET items == SentimentItems(sc_messages)
       IN  \E outcome \in IF items = <<>> THEN {Raised}
                          ELSE ScorerOutcomes(Len(items)) :
              LET scores == FixLength(IF outcome.raised
                                      THEN Fallback(TextsOf(items))
                                      ELSE outcome.scores,
                                      Len(items))
              IN  /\ sc_outcome' = outcome
                  /\ IF \E i \in 1..Len(scores) : FloatRaises(scores[i])
                     THEN /\ sc_pc' = "raised"
                          /\ UNCHANGED <<sc_st, sc_out>>
                     ELSE /\ sc_pc' = "done"
                          /\ sc_st' = AddScores(NoSentiment, items,
                                                ToFloats(scores), 0)
                          /\ sc_out' = SentimentResult(sc_st')
    /\ UNCHANGED sc_messages
    /\ UNCHANGED notScores

ScoresNext == ScoreMessages

(***************************************************************************)
(* engine_v4.py : the bridge of the browser.  CHATS_MAP and JSON_CACHE are *)
(* the module's globals; load_chats and generate_stats hold no await and   *)
(* run to their end.                                                       *)
(*                                                                         *)
(* A payload is a JSON file or a zip archive.  A JSON document is kept as  *)
(* what the code asks of it: "chat" (a dict with a list of messages and a  *)
(* title), "ignored" (the title is one of IGNORE_TITLES), "nolist" (a dict *)
(* without a list of messages, or with an empty one),                      *)
(* "notdict" (a JSON array: data.get raises AttributeError) and "broken"   *)
(* (json.loads raises).  The parsed data is kept as the number of the call *)
(* that read it, the name of the file and the kind of the document.        *)
(***************************************************************************)
MaxLoads == 3
MaxZipEntries == 2

FileNames == {"message_1.json", "message_2.json"}
ChatTitles == {"Ala", "Ola"}

Document(kind, title) == [kind |-> kind, title |-> title]
Documents ==
    {Document("chat", t) : t \in ChatTitles}
        \cup {Document(k, "") : k \in {"ignored", "nolist", "notdict", "broken"}}

JsonPayload(name, doc) == [zip |-> FALSE, name |-> name, doc |-> doc, entries |-> <<>>]
ZipPayload(entries) ==
    [zip |-> TRUE, name |-> "messages.zip", doc |-> Document("broken", ""),
     entries |-> entries]

ZipEntries ==
    {[name |-> n, doc |-> d] :
        n \in FileNames,
        d \in {Document("chat", "Ala"), Document("chat", "Ola"),
               Document("ignored", ""), Document("notdict", "")}}

Payloads ==
    {JsonPayload("message_1.json", d) :
        d \in {Document("chat", "Ala"), Document("ignored", ""),
               Document("nolist", ""), Document("broken", "")}}
        \cup {ZipPayload(entries) : entries \in SeqsUpTo(ZipEntries, MaxZipEntries)}

\* the parsed JSON of a file, as read by the given call
ParsedData(call, name, doc) == [call |-> call, name |-> name, kind |-> doc.kind]

\* what grouping has done: the exception, JSON_CACHE and chat_groups
Grouping(raised, cache, groups) ==
    [raised |-> raised, cache |-> cache, groups |-> groups]

\* chat_groups[title]["files"].append(json_name)
AddToGroup(groups, title, name) ==
    DictPut(groups, title, Append(DictGet(groups, title, <<>>), name))

\* _group_from_json
_group_from_json(call, cache, payload) ==
    IF payload.doc.kind \in {"broken", "notdict", "nolist"}
    THEN Grouping(TRUE, cache, <<>>)
    ELSE IF payload.doc.kind = "ignored"
    THEN Grouping(FALSE, cache, <<>>)
    ELSE Grouping(FALSE,
                  DictPut(cache, payload.name,
                          ParsedData(call, payload.name, payload.doc)),
                  <<<<payload.doc.title, <<payload.name>>>>>>)

\* _group_from_zip: the loop over json_files
RECURSIVE GroupZipEntries(_, _, _, _)
GroupZipEntries(call, cache, groups, entries) ==
    IF entries = <<>> THEN Grouping(FALSE, cache, groups)
    ELSE LET entry  == Head(entries)
             cached == DictPut(cache, entry.name,
                               ParsedData(call, entry.name, entry.doc))
         IN  IF entry.doc.kind = "broken"
             THEN GroupZipEntries(call, cache, groups, Tail(entries))
             ELSE IF entry.doc.kind = "notdict"
             THEN Grouping(TRUE, cache, groups)
             ELSE IF entry.doc.kind = "nolist"
             THEN GroupZipEntries(call, cache, groups, Tail(entries))
             ELSE IF entry.doc.kind = "ignored"
             THEN GroupZipEntries(call, cached, groups, Tail(entries))
             ELSE GroupZipEntries(call, cached,
                                  AddToGroup(groups, entry.doc.title, entry.name),
                                  Tail(entries))

_group_from_zip(call, cache, payload) ==
    GroupZipEntries(call, cache, <<>>, payload.entries)

\* str(uuid.uuid4()): an id no earlier call has returned, kept as the number
\* of the call and the place of the chat in chat_groups
ChatId(call, i) == <<call, i>>

\* _build_chat_list: CHATS_MAP.clear(), then CHATS_MAP[chat_id] = info["files"]
_build_chat_list(call, chat_groups) ==
    [i \in 1..Len(chat_groups) |-> <<ChatId(call, i), chat_groups[i][2]>>]

\* generate_stats: the data the messages are taken from, in the order of
\* the files of the chat
StatsSources(chats_map, json_cache, chat_id) ==
    LET files  == DictGet(chats_map, chat_id, <<>>)
        cached == SelectSeq(files, LAMBDA f : DictHas(json_cache, f))
        data   == [i \in 1..Len(cached) |-> DictGet(json_cache, cached[i], <<>>)]
    IN  SelectSeq(data, LAMBDA d : d.kind = "chat")

NoResult == [t |-> "none", sources |-> <<>>]

generate_stats(chats_map, json_cache, chat_id) ==
    IF ~DictHas(chats_map, chat_id)
    THEN [t |-> "Unknown chat id", sources |-> <<>>]
    ELSE IF StatsSources(chats_map, json_cache, chat_id) = <<>>
    THEN [t |-> "No messages", sources |-> <<>>]
    ELSE [t |-> "stats", sources |-> StatsSources(chats_map, json_cache, chat_id)]

EngineStart ==
    /\ en_pc = "ready"
    /\ en_CHATS_MAP = <<>>
    /\ en_JSON_CACHE = <<>>
    /\ en_calls = 0
    /\ en_recent = {}
    /\ en_issued = {}
    /\ en_result = NoResult

\* load_chats(bytes_proxy, filename)
LoadChats ==
    /\ en_pc = "ready"
    /\ en_calls < MaxLoads
    /\ \E payload \in Payloads :
          LET call    == en_calls + 1
              grouped == IF payload.zip THEN _group_from_zip(call, <<>>, payload)
                         ELSE _group_from_json(call, <<>>, payload)
          IN  /\ en_calls' = call
              /\ en_JSON_CACHE' = grouped.cache
              /\ IF grouped.raised
                 THEN /\ UNCHANGED <<en_CHATS_MAP, en_issued>>
                      /\ en_recent' = {}
                      /\ en_result' = [t |-> "Load error", sources |-> <<>>]
                 ELSE /\ en_CHATS_MAP' = _build_chat_list(call, grouped.groups)
                      /\ en_recent' = {ChatId(call, i) : i \in 1..Len(grouped.groups)}
                      /\ en_issued' = en_issued \cup en_recent'
                      /\ en_result' = NoResult
    /\ UNCHANGED en_pc
    /\ UNCHANGED notEngine

\* generate_stats(chat_id), of an id the page has been given, or of no id
GenerateStats ==
    /\ en_pc = "ready"
    /\ \E chat_id \in en_issued \cup {ChatId(0, 0)} :
          en_result' = generate_stats(en_CHATS_MAP, en_JSON_CACHE, chat_id)
    /\ UNCHANGED <<en_pc, en_CHATS_MAP, en_JSON_CACHE, en_calls, en_recent, en_issued>>
    /\ UNCHANGED notEngine

EngineNext ==
    \/ LoadChats
    \/ GenerateStats

(***************************************************************************)
(* logic_v3.py : the page of the browser.  CHATS_MAP and JSON_CACHE are    *)
(* the module's globals; handle_upload and generate_report are coroutines  *)
(* of one event loop: each runs alone from one await to the next, and      *)
(* between two awaits of one coroutine any other coroutine may run.        *)
(*                                                                         *)
(* An archive is a zip file: its JSON files in the order of namelist(),    *)
(* each "chat" (a dict with messages: cached and grouped under the title   *)
(* its path gives) or "skipped" (unparseable, not a dict, without          *)
(* messages: the inner try skips it); or no zip file at all (ZipFile       *)
(* raises).                                                                *)
(***************************************************************************)
MaxUploads == 3
ScanYieldEvery == 100

\* the title is that of the folder: message_<n>.json of the folder ala_1
\* belongs to the chat "ala"
TitleOf(name) == IF name = "ola_2/message_1.json" THEN "ola" ELSE "ala"

ZipFile(name, kind) == [name |-> name, kind |-> kind]
Archive(bad, files) == [bad |-> bad, files |-> files]

Archives ==
    {Archive(FALSE, <<ZipFile("ala_1/message_1.json", "chat"),
                      ZipFile("ala_1/message_2.json", "chat")>>),
     Archive(FALSE, <<ZipFile("ala_1/message_1.json", "chat"),
                      ZipFile("ala_1/message_3.json", "chat")>>),
     Archive(FALSE, <<ZipFile("ola_2/message_1.json", "chat")>>),
     Archive(FALSE, <<ZipFile("ala_1/message_1.json", "skipped")>>),
     Archive(FALSE, <<>>),
     Archive(TRUE, <<>>)}

\* a handle_upload that has not started
NoUpload == [pc |-> "new", zip |-> Archive(TRUE, <<>>), i |-> 0, groups |-> <<>>]

\* the parsed JSON of a file, as read by the given upload
UploadedData(upload, name) == [upload |-> upload, name |-> name]

\* cid = str(uuid.uuid4()): an id no other upload has made, kept as the
\* number of the upload and the place of the chat in chat_groups
Cid(upload, j) == <<upload, j>>

\* the turns i + 1 .. last of "for i, jf in enumerate(json_files)": state is
\* JSON_CACHE and chat_groups
RECURSIVE ScanInto(_, _, _, _, _)
ScanInto(upload, cache, groups, files, last) ==
    IF files = <<>> \/ last = 0 THEN [cache |-> cache, groups |-> groups]
    ELSE LET jf == Head(files)
         IN  IF jf.kind # "chat"
             THEN ScanInto(upload, cache, groups, Tail(files), last - 1)
             ELSE ScanInto(upload,
                           DictPut(cache, jf.name, UploadedData(upload, jf.name)),
                           DictPut(groups, TitleOf(jf.name),
                                   Append(DictGet(groups, TitleOf(jf.name), <<>>),
                                          jf.name)),
                           Tail(files), last - 1)

\* for title, info in chat_groups.items(): CHATS_MAP[cid] = info['files']
RECURSIVE AddChats(_, _, _, _)
AddChats(chats_map, upload, groups, j) ==
    IF j > Len(groups) THEN chats_map
    ELSE AddChats(DictPut(chats_map, Cid(upload, j), groups[j][2]),
                  upload, groups, j + 1)

\* generate_report: the data the messages are taken from
ReportSources(chats_map, json_cache, chat_id) ==
    LET files  == DictGet(chats_map, chat_id, <<>>)
        cached == SelectSeq(files, LAMBDA f : DictHas(json_cache, f))
    IN  [i \in 1..Len(cached) |-> DictGet(json_cache, cached[i], <<>>)]

NoReport == [t |-> "none", chat_id |-> Cid(0, 0), sources |-> <<>>, uploading |-> FALSE]

generate_report(chats_map, json_cache, chat_id, uploading) ==
    [t |-> IF ~DictHas(chats_map, chat_id) THEN "report error"
           ELSE IF ReportSources(chats_map, json_cache, chat_id) = <<>>
           THEN "no data"
           ELSE "report",
     chat_id |-> chat_id,
     sources |-> ReportSources(chats_map, json_cache, chat_id),
     uploading |-> uploading]

\* an upload has started and has not finished
Uploading(ups) == \E k \in 1..MaxUploads : ups[k].pc \notin {"new", "done"}

LogicStart ==
    /\ lg_CHATS_MAP = <<>>
    /\ lg_JSON_CACHE = <<>>
    /\ lg_up = [k \in 1..MaxUploads |-> NoUpload]
    /\ lg_started = 0
    /\ lg_shown = {}
    /\ lg_click = [pc |-> "none", chat_id |-> Cid(0, 0)]
    /\ lg_report = NoReport

\* handle_upload(event) up to "await asyncio.sleep(0.05)": the reading of
\* the file is started and the globals are reset
StartUpload ==
    /\ lg_started < MaxUploads
    /\ \E zip \in Archives :
          lg_up' = [lg_up EXCEPT ![lg_started + 1] =
                       [pc |-> "sleep1", zip |-> zip, i |-> 0, groups |-> <<>>]]
    /\ lg_started' = lg_started + 1
    /\ lg_CHATS_MAP' = <<>>
    /\ lg_JSON_CACHE' = <<>>
    /\ UNCHANGED <<lg_shown, lg_click, lg_report>>
    /\ UNCHANGED notLogic

\* ... up to "array_buf = await array_buffer_promise"
AwaitBuffer ==
    /\ \E k \in 1..MaxUploads :
          /\ lg_up[k].pc = "sleep1"
          /\ lg_up' = [lg_up EXCEPT ![k].pc = "buffer"]
    /\ UNCHANGED <<lg_CHATS_MAP, lg_JSON_CACHE, lg_started, lg_shown, lg_click, lg_report>>
    /\ UNCHANGED notLogic

\* ... up to the second "await asyncio.sleep(0.05)"
AwaitSleep ==
    /\ \E k \in 1..MaxUploads :
          /\ lg_up[k].pc = "buffer"
          /\ lg_up' = [lg_up EXCEPT ![k].pc = "sleep2"]
    /\ UNCHANGED <<lg_CHATS_MAP, lg_JSON_CACHE, lg_started, lg_shown, lg_click, lg_report>>
    /\ UNCHANGED notLogic

\* ... the zip is opened: ZipFile raises (the outer except ends the
\* upload), or there is no JSON file (the upload ends with no chat), or the
\* loop awaits asyncio.sleep(0.01) before its first file
OpenZip ==
    /\ \E k \in 1..MaxUploads :
          /\ lg_up[k].pc = "sleep2"
          /\ lg_up' = [lg_up EXCEPT ![k].pc =
                          IF lg_up[k].zip.bad \/ lg_up[k].zip.files = <<>>
                          THEN "done" ELSE "scan"]
    /\ UNCHANGED <<lg_CHATS_MAP, lg_JSON_CACHE, lg_started, lg_shown, lg_click, lg_report>>
    /\ UNCHANGED notLogic

\* ... the files up to the next await of the loop (every 100 files); after
\* the last file the chats are put into CHATS_MAP and shown
ScanFiles ==
    /\ \E k \in 1..MaxUploads :
          /\ lg_up[k].pc = "scan"
          /\ LET u       == lg_up[k]
                 rest    == SubSeq(u.zip.files, u.i + 1, Len(u.zip.files))
                 scanned == ScanInto(k, lg_JSON_CACHE, u.groups, rest, ScanYieldEvery)
             IN  /\ lg_JSON_CACHE' = scanned.cache
                 /\ IF Len(rest) > ScanYieldEvery
                    THEN /\ lg_up' = [lg_up EXCEPT ![k].i = u.i + ScanYieldEvery,
                                                   ![k].groups = scanned.groups]
                         /\ UNCHANGED <<lg_CHATS_MAP, lg_shown>>
                    ELSE /\ lg_up' = [lg_up EXCEPT ![k].pc = "done",
                                                   ![k].i = Len(u.zip.files),
                                                   ![k].groups = scanned.groups]
                         /\ lg_CHATS_MAP' = AddChats(lg_CHATS_MAP, k, scanned.groups, 1)
                         /\ lg_shown' = {Cid(k, j) : j \in 1..Len(scanned.groups)}
    /\ UNCHANGED <<lg_started, lg_click, lg_report>>
    /\ UNCHANGED notLogic

\* on_click of a chat of the list: generate_report(cid) up to
\* "await asyncio.sleep(0.05)"
ClickChat ==
    /\ lg_click.pc = "none"
    /\ lg_report = NoReport
    /\ \E chat_id \in lg_shown : lg_click' = [pc |-> "sleep", chat_id |-> chat_id]
    /\ UNCHANGED <<lg_CHATS_MAP, lg_JSON_CACHE, lg_up, lg_started, lg_shown, lg_report>>
    /\ UNCHANGED notLogic

\* generate_report(cid) from its await to its end
GenerateReport ==
    /\ lg_click.pc = "sleep"
    /\ lg_report' = generate_report(lg_CHATS_MAP, lg_JSON_CACHE, lg_click.chat_id,
                                    Uploading(lg_up))
    /\ lg_click' = [lg_click EXCEPT !.pc = "done"]
    /\ UNCHANGED <<lg_CHATS_MAP, lg_JSON_CACHE, lg_up, lg_started, lg_shown>>
    /\ UNCHANGED notLogic

LogicNext ==
    \/ StartUpload
    \/ AwaitBuffer
    \/ AwaitSleep
    \/ OpenZip
    \/ ScanFiles
    \/ ClickChat
    \/ GenerateReport

(***************************************************************************)
(* The specifications.  Each one runs one part of the pipeline; the        *)
(* variables of the other parts stay at their idle values.                 *)
(***************************************************************************)
MojiIdle ==
    /\ mj_pc = "idle"
    /\ mj_s = <<>>
    /\ mj_t = <<>>
    /\ mj_fixed = <<>>
    /\ mj_fixed2 = <<>>

LoadIdle ==
    /\ ld_pc = "idle"
    /\ ld_data = [t |-> "array", messages |-> Absent, Messages |-> Absent]
    /\ ld_total = 0
    /\ ld_idx = 0
    /\ ld_messages = <<>>
    /\ ld_skipped = 0
    /\ ld_entry = EmptyEntry
    /\ ld_fate = "none"

ReportIdle ==
    /\ rp_pc = "idle"
    /\ rp_messages = <<>>
    /\ rp_tz = 0
    /\ rp_scorer = NoScorer
    /\ rp_metrics = NoBundle
    /\ rp_stats = NoStats

SentimentIdle ==
    /\ sn_pc = "idle"
    /\ sn_items = <<>>
    /\ sn_idx = 0
    /\ sn_calls = <<>>
    /\ sn_st = NoSentiment
    /\ sn_out = SentimentResult(NoSentiment)

RunsIdle ==
    /\ rn_pc = "idle"
    /\ rn_list = <<>>
    /\ rn_given = <<>>
    /\ rn_input = <<0, NoScorer>>
    /\ rn_first = NoRun
    /\ rn_between = 0
    /\ rn_other = NoRun
    /\ rn_second = NoRun

CliIdle ==
    /\ cl_pc = "idle"
    /\ cl_args = [timezone_ok |-> FALSE, input_ok |-> FALSE, retained |-> 0,
                  skipped |-> 0, backend |-> "off", model_ok |-> FALSE,
                  metrics_ok |-> FALSE, output_ok |-> FALSE]
    /\ cl_messages = 0
    /\ cl_calls = <<>>
    /\ cl_stderr = <<>>
    /\ cl_stdout = <<>>
    /\ cl_exit = -1

OrderIdle ==
    /\ od_pc = "idle"
    /\ od_messages = <<>>
    /\ od_tz = 0
    /\ od_out = NoBundle

WordsIdle ==
    /\ wd_pc = "idle"
    /\ wd_messages = <<>>
    /\ wd_out = NoBundle

WalkIdle ==
    /\ wk_pc = "idle"
    /\ wk_tokens = <<>>
    /\ wk_idx = 0
    /\ wk_w = WalkStart
    /\ wk_trace = <<>>

WinnersIdle ==
    /\ wn_pc = "idle"
    /\ wn_messages = <<>>
    /\ wn_metrics = NoBundle
    /\ wn_stats = NoStats

RepliesIdle ==
    /\ rs_pc = "idle"
    /\ rs_messages = <<>>
    /\ rs_out = NoBundle

ScoresIdle ==
    /\ sc_pc = "idle"
    /\ sc_messages = <<>>
    /\ sc_outcome = Raised
    /\ sc_st = NoSentiment
    /\ sc_out = SentimentResult(NoSentiment)

EngineIdle ==
    /\ en_pc = "idle"
    /\ en_CHATS_MAP = <<>>
    /\ en_JSON_CACHE = <<>>
    /\ en_calls = 0
    /\ en_recent = {}
    /\ en_issued = {}
    /\ en_result = NoResult

LogicIdle ==
    /\ lg_CHATS_MAP = <<>>
    /\ lg_JSON_CACHE = <<>>
    /\ lg_up = [k \in 1..MaxUploads |-> NoUpload]
    /\ lg_started = MaxUploads
    /\ lg_shown = {}
    /\ lg_click = [pc |-> "idle", chat_id |-> Cid(0, 0)]
    /\ lg_report = NoReport

\* load_messages
Init ==
    /\ LoadStart
    /\ MojiIdle /\ MetricsIdle /\ PercentileIdle /\ TextIdle
    /\ ReportIdle /\ SentimentIdle /\ RunsIdle /\ CliIdle /\ OrderIdle
    /\ WordsIdle /\ WalkIdle /\ WinnersIdle /\ RepliesIdle /\ ScoresIdle
    /\ EngineIdle /\ LogicIdle
Next == LoadNext
Spec == Init /\ [][Next]_vars

\* maybe_fix_mojibake
MojiInit ==
    /\ MojiStart
    /\ LoadIdle /\ MetricsIdle /\ PercentileIdle /\ TextIdle
    /\ ReportIdle /\ SentimentIdle /\ RunsIdle /\ CliIdle /\ OrderIdle
    /\ WordsIdle /\ WalkIdle /\ WinnersIdle /\ RepliesIdle /\ ScoresIdle
    /\ EngineIdle /\ LogicIdle
SpecMojibake == MojiInit /\ [][MojiNext]_vars

\* compute_metrics
MetricsInit ==
    /\ MetricsStart
    /\ MojiIdle /\ LoadIdle /\ PercentileIdle /\ TextIdle /\ ReportIdle
    /\ SentimentIdle /\ RunsIdle /\ CliIdle /\ OrderIdle /\ WordsIdle
    /\ WalkIdle /\ WinnersIdle /\ RepliesIdle /\ ScoresIdle /\ EngineIdle
    /\ LogicIdle
SpecMetrics == MetricsInit /\ [][MetricsNext]_vars

\* percentile
PercentileInit ==
    /\ PercentileStart
    /\ MojiIdle /\ LoadIdle /\ MetricsIdle /\ TextIdle /\ ReportIdle
    /\ SentimentIdle /\ RunsIdle /\ CliIdle /\ OrderIdle /\ WordsIdle
    /\ WalkIdle /\ WinnersIdle /\ RepliesIdle /\ ScoresIdle /\ EngineIdle
    /\ LogicIdle
SpecPercentile == PercentileInit /\ [][PercentileNext]_vars

\* tokenize, tokenize_raw, generate_ngrams, is_meaningful_phrase
TextInit ==
    /\ TextStart
    /\ MojiIdle /\ LoadIdle /\ MetricsIdle /\ PercentileIdle
    /\ ReportIdle /\ SentimentIdle /\ RunsIdle /\ CliIdle /\ OrderIdle
    /\ WordsIdle /\ WalkIdle /\ WinnersIdle /\ RepliesIdle /\ ScoresIdle
    /\ EngineIdle /\ LogicIdle
SpecText == TextInit /\ [][TextNext]_vars

\* compute_metrics, then build_stats
ReportInit ==
    /\ ReportStart
    /\ MojiIdle /\ LoadIdle /\ MetricsIdle /\ PercentileIdle /\ TextIdle
    /\ SentimentIdle /\ RunsIdle /\ CliIdle /\ OrderIdle /\ WordsIdle
    /\ WalkIdle /\ WinnersIdle /\ RepliesIdle /\ ScoresIdle /\ EngineIdle
    /\ LogicIdle
SpecReport == ReportInit /\ [][ReportNext]_vars

\* sentiment_stats with a scorer
SentimentInit ==
    /\ SentimentStart
    /\ MojiIdle /\ LoadIdle /\ MetricsIdle /\ PercentileIdle /\ TextIdle
    /\ ReportIdle /\ RunsIdle /\ CliIdle /\ OrderIdle /\ WordsIdle
    /\ WalkIdle /\ WinnersIdle /\ RepliesIdle /\ ScoresIdle /\ EngineIdle
    /\ LogicIdle
SpecSentiment == SentimentInit /\ [][SentimentNext]_vars

\* repeated runs of compute_metrics and build_stats
RunsInit ==
    /\ RunsStart
    /\ MojiIdle /\ LoadIdle /\ MetricsIdle /\ PercentileIdle /\ TextIdle
    /\ ReportIdle /\ SentimentIdle /\ CliIdle /\ OrderIdle /\ WordsIdle
    /\ WalkIdle /\ WinnersIdle /\ RepliesIdle /\ ScoresIdle /\ EngineIdle
    /\ LogicIdle
SpecRuns == RunsInit /\ [][RunsNext]_vars

\* main
CliInit ==
    /\ CliStart
    /\ MojiIdle /\ LoadIdle /\ MetricsIdle /\ PercentileIdle /\ TextIdle
    /\ ReportIdle /\ SentimentIdle /\ RunsIdle /\ OrderIdle /\ WordsIdle
    /\ WalkIdle /\ WinnersIdle /\ RepliesIdle /\ ScoresIdle /\ EngineIdle
    /\ LogicIdle
SpecCli == CliInit /\ [][CliNext]_vars

\* compute_metrics on a stream in any order
OrderInit ==
    /\ OrderStart
    /\ MojiIdle /\ LoadIdle /\ MetricsIdle /\ PercentileIdle /\ TextIdle
    /\ ReportIdle /\ SentimentIdle /\ RunsIdle /\ CliIdle /\ WordsIdle
    /\ WalkIdle /\ WinnersIdle /\ RepliesIdle /\ ScoresIdle /\ EngineIdle
    /\ LogicIdle
SpecOrder == OrderInit /\ [][OrderNext]_vars

\* compute_metrics on messages with placeholder markers
WordsInit ==
    /\ WordsStart
    /\ MojiIdle /\ LoadIdle /\ MetricsIdle /\ PercentileIdle /\ TextIdle
    /\ ReportIdle /\ SentimentIdle /\ RunsIdle /\ CliIdle /\ OrderIdle
    /\ WalkIdle /\ WinnersIdle /\ RepliesIdle /\ ScoresIdle /\ EngineIdle
    /\ LogicIdle
SpecWords == WordsInit /\ [][WordsNext]_vars

\* the token walk of sentiment_score
WalkInit ==
    /\ MojiIdle
    /\ LoadIdle /\ MetricsIdle /\ PercentileIdle /\ TextIdle
    /\ ReportIdle /\ SentimentIdle /\ RunsIdle /\ CliIdle /\ OrderIdle
    /\ WordsIdle /\ WalkSetUp /\ WinnersIdle /\ RepliesIdle /\ ScoresIdle
    /\ EngineIdle /\ LogicIdle
SpecWalk == WalkInit /\ [][WalkNext]_vars

\* the winners of build_stats
WinnersInit ==
    /\ WinnersStart
    /\ MojiIdle /\ LoadIdle /\ MetricsIdle /\ PercentileIdle /\ TextIdle
    /\ ReportIdle /\ SentimentIdle /\ RunsIdle /\ CliIdle /\ OrderIdle
    /\ WordsIdle /\ WalkIdle /\ RepliesIdle /\ ScoresIdle /\ EngineIdle
    /\ LogicIdle
SpecWinners == WinnersInit /\ [][WinnersNext]_vars

\* the response summaries of compute_metrics
RepliesInit ==
    /\ RepliesStart
    /\ MojiIdle /\ LoadIdle /\ MetricsIdle /\ PercentileIdle /\ TextIdle
    /\ ReportIdle /\ SentimentIdle /\ RunsIdle /\ CliIdle /\ OrderIdle
    /\ WordsIdle /\ WalkIdle /\ WinnersIdle /\ ScoresIdle /\ EngineIdle
    /\ LogicIdle
SpecReplies == RepliesInit /\ [][RepliesNext]_vars

\* sentiment_stats with any scorer
ScoresInit ==
    /\ ScoresStart
    /\ MojiIdle /\ LoadIdle /\ MetricsIdle /\ PercentileIdle /\ TextIdle
    /\ ReportIdle /\ SentimentIdle /\ RunsIdle /\ CliIdle /\ OrderIdle
    /\ WordsIdle /\ WalkIdle /\ WinnersIdle /\ RepliesIdle /\ EngineIdle
    /\ LogicIdle
SpecScores == ScoresInit /\ [][ScoresNext]_vars

\* the bridge of the browser, engine_v4
EngineInit ==
    /\ EngineStart
    /\ MojiIdle /\ LoadIdle /\ MetricsIdle /\ PercentileIdle /\ TextIdle
    /\ ReportIdle /\ SentimentIdle /\ RunsIdle /\ CliIdle /\ OrderIdle
    /\ WordsIdle /\ WalkIdle /\ WinnersIdle /\ RepliesIdle /\ ScoresIdle
    /\ LogicIdle
SpecEngine == EngineInit /\ [][EngineNext]_vars

\* the page of the browser, logic_v3
LogicInit ==
    /\ LogicStart
    /\ MojiIdle /\ LoadIdle /\ MetricsIdle /\ PercentileIdle /\ TextIdle
    /\ ReportIdle /\ SentimentIdle /\ RunsIdle /\ CliIdle /\ OrderIdle
    /\ WordsIdle /\ WalkIdle /\ WinnersIdle /\ RepliesIdle /\ ScoresIdle
    /\ EngineIdle
SpecLogic == LogicInit /\ [][LogicNext]_vars

(***************************************************************************)
(* Properties of load_messages (checked under Spec)                        *)
(***************************************************************************)
\* The field the claims call "used": the primary name when it is present
\* with a non-null value, the alias otherwise.
Resolve(primary, alias) ==
    IF primary.t = "absent" \/ primary.t = "null" THEN alias ELSE primary

\* "can be converted to an integer": integers, finite floats, numeric text
ConvertibleToInt(v) ==
    \/ v.t \in {"int", "bool", "float"}
    \/ v.t = "str" /\ IntOfStr(v.s).r = "ok"

\* the entries C1 says are skipped
ShouldBeSkipped(entry) ==
    \/ ~entry.obj
    \/ ~ConvertibleToInt(Resolve(entry.timestamp_ms, entry.timestamp))
    \/ LET raw == Resolve(entry.content, entry.text)
       IN  raw.t = "str" /\ is_ignored_system_message(maybe_fix_mojibake(raw.s))

LastMessage == ld_messages[Len(ld_messages)]

\* C1: every raw entry is either retained as one Message or counted once in
\* skipped, it is skipped exactly when it is not an object, has no timestamp
\* convertible to an integer, or is a system message, and no entry aborts
\* the load.
C1_ParserAccounting ==
    /\ (ld_pc # "idle") => (Len(ld_messages) + ld_skipped = ld_idx)
    /\ (ld_pc = "done") => (Len(ld_messages) + ld_skipped = ld_total)
    /\ (ld_fate # "none") =>
          /\ ld_fate \in {"kept", "skipped"}
          /\ (ld_fate = "skipped") <=> ShouldBeSkipped(ld_entry)

\* C2: for a JSON object, the format error is raised exactly when there is
\* no list under "messages" (or under "Messages" when "messages" is absent
\* or null), and it is raised before any entry is processed.
C2_FormatErrorIffNoList ==
    (ld_data.t = "object" /\ ld_pc \notin {"idle", "start"}) =>
        /\ (ld_data.messages.t = "list"
            \/ (IsNone(ld_data.messages) /\ ld_data.Messages.t = "list"))
              => (ld_pc # "format_error")
        /\ (ld_data.messages.t # "list" /\ ld_data.Messages.t # "list")
              => (ld_pc = "format_error")
        /\ (ld_pc = "format_error") => (ld_idx = 0 /\ ld_fate = "none")

\* C3: every returned Message has an integer timestamp, a non-blank sender
\* name ("Unknown" when the raw sender is absent, not a string or blank), a
\* content that went through the mojibake repair and is no system message,
\* and non-negative media counts.
C3_MessageInvariant ==
    /\ \A i \in 1..Len(ld_messages) :
          LET m == ld_messages[i]
          IN  /\ m.timestamp_ms \in Int
              /\ Strip(m.sender_name) # <<>>
              /\ (m.content.t = "str") => ~is_ignored_system_message(m.content.s)
              /\ m.photo_count \in Nat
              /\ m.video_count \in Nat
              /\ m.audio_count \in Nat
              /\ m.gif_count \in Nat
              /\ m.file_count \in Nat
    /\ (ld_fate = "kept") =>
          LET rawSender  == Resolve(ld_entry.sender_name, ld_entry.senderName)
              rawContent == Resolve(ld_entry.content, ld_entry.text)
          IN  /\ (rawSender.t # "str" \/ Strip(rawSender.s) = <<>>)
                    => (LastMessage.sender_name = S_Unknown)
              /\ (rawContent.t = "str")
                    => (LastMessage.content = Text(maybe_fix_mojibake(rawContent.s)))
              /\ (rawContent.t # "str") => (LastMessage.content = NoText)

\* The entry written with the primary names only.
WithPrimaryNames(entry) ==
    [entry EXCEPT
        !.timestamp_ms = Resolve(entry.timestamp_ms, entry.timestamp),
        !.timestamp = Absent,
        !.sender_name = Resolve(entry.sender_name, entry.senderName),
        !.senderName = Absent,
        !.content = Resolve(entry.content, entry.text),
        !.text = Absent]

\* C6: the primary field name is used whenever it holds a non-null value and
\* the alias only otherwise, so an entry loads like the same entry written
\* with the primary names; an empty-string content stays "".
C6_FieldAliases ==
    (ld_fate # "none" /\ ld_entry.obj) =>
        LET expected == ProcessEntry(WithPrimaryNames(ld_entry))
        IN  /\ ld_fate = expected.fate
            /\ (ld_fate = "kept") => (LastMessage = expected.msg)
            /\ (ld_fate = "kept"
                /\ Resolve(ld_entry.content, ld_entry.text) = JStr(<<>>))
                  => (LastMessage.content = Text(<<>>))

\* C6 witness: an entry with alias names only and an empty text was kept.
C6_Witness ==
    /\ ld_fate = "kept"
    /\ ld_entry.timestamp_ms = Absent /\ ld_entry.timestamp # Absent
    /\ ld_entry.sender_name = Absent /\ ld_entry.senderName = JStr(S_Bo)
    /\ ld_entry.content = Absent /\ ld_entry.text = JStr(<<>>)
    /\ LastMessage.content = Text(<<>>)
    /\ LastMessage.sender_name = S_Bo

(***************************************************************************)
(* Properties of maybe_fix_mojibake (checked under SpecMojibake)           *)
(***************************************************************************)
\* C4: a text that was encoded as UTF-8 and decoded as Latin-1 is repaired to
\* exactly the text it was before.
C4_RepairExact == (mj_pc = "repaired") => (mj_fixed = mj_s)

\* C5: repairing an already repaired text changes nothing.
C5_RepairIdempotent == (mj_pc \in {"repaired2", "fixed2"}) => (mj_fixed2 = mj_fixed)

(***************************************************************************)
(* Properties of compute_metrics (checked under SpecMetrics)               *)
(***************************************************************************)
Bundle == cm_out

SendersOf(messages) == {messages[i].sender_name : i \in 1..Len(messages)}

\* number of messages of a sender
SentBy(name) == Cardinality({i \in 1..Len(cm_messages) :
                                cm_messages[i].sender_name = name})

SumOver(f, lo, hi) == SumSeq([i \in 1..(hi - lo + 1) |-> f[lo + i - 1]])

\* C7: every message is counted once in the hour histogram (24 buckets),
\* the weekday histogram (7 buckets), the per-sender counts and the total.
C7_MessageConservation ==
    (cm_pc = "done") =>
        /\ DOMAIN Bundle.hourly_counts = 0..23
        /\ DOMAIN Bundle.weekday_counts = 0..6
        /\ SumOver(Bundle.hourly_counts, 0, 23) = Len(cm_messages)
        /\ SumOver(Bundle.weekday_counts, 0, 6) = Len(cm_messages)
        /\ DictSum(Bundle.message_counts) = Len(cm_messages)
        /\ Bundle.total_messages = Len(cm_messages)

\* C7 witness: three or more messages spread over several hours, weekdays
\* and senders were counted.
C7_Witness ==
    /\ cm_pc = "done"
    /\ Len(cm_messages) >= 3
    /\ Cardinality({h \in 0..23 : Bundle.hourly_counts[h] > 0}) >= 2
    /\ Cardinality({d \in 0..6 : Bundle.weekday_counts[d] > 0}) >= 2
    /\ Len(Bundle.message_counts) >= 2

\* position of the first message of a sender in the sorted stream
FirstInSorted(name) ==
    LET sorted == sort_messages(cm_messages)
    IN  CHOOSE i \in 1..Len(sorted) :
            /\ sorted[i].sender_name = name
            /\ \A j \in 1..(i - 1) : sorted[j].sender_name # name

\* C8: participants lists every sender once, by non-increasing message
\* count, senders of equal count in the order of their first message in the
\* sorted stream; top_sender is the first of them, None without messages.
C8_ParticipantRanking ==
    (cm_pc = "done") =>
        LET p == Bundle.participants
        IN  /\ {p[i] : i \in 1..Len(p)} = SendersOf(cm_messages)
            /\ Len(p) = Cardinality(SendersOf(cm_messages))
            /\ \A i, j \in 1..Len(p) :
                  (i < j) =>
                     /\ SentBy(p[i]) >= SentBy(p[j])
                     /\ (SentBy(p[i]) = SentBy(p[j]))
                           => (FirstInSorted(p[i]) < FirstInSorted(p[j]))
            /\ IF cm_messages = <<>> THEN Bundle.top_sender = NoText
               ELSE /\ Bundle.top_sender = Text(p[1])
                    /\ \A s \in SendersOf(cm_messages) : SentBy(s) <= SentBy(p[1])

\* position of the first message of a sender in the input
FirstInInput(name) ==
    CHOOSE i \in 1..Len(cm_messages) :
        /\ cm_messages[i].sender_name = name
        /\ \A j \in 1..(i - 1) : cm_messages[j].sender_name # name

\* C8 witness: two senders of equal count were ranked by the sorted stream,
\* against the order of their first messages in the input.
C8_Witness ==
    /\ cm_pc = "done"
    /\ Len(Bundle.participants) = 2
    /\ SentBy(Bundle.participants[1]) = SentBy(Bundle.participants[2])
    /\ FirstInInput(Bundle.participants[2]) < FirstInInput(Bundle.participants[1])

\* the adjacent pairs of the sorted stream that C9 says count for a sender
ResponsePairs(name) ==
    LET sorted == sort_messages(cm_messages)
    IN  {i \in 1..(Len(sorted) - 1) :
            /\ sorted[i].sender_name # sorted[i + 1].sender_name
            /\ sorted[i + 1].sender_name = name
            /\ cm_bounds[1] <= sorted[i + 1].timestamp_ms - sorted[i].timestamp_ms
            /\ sorted[i + 1].timestamp_ms - sorted[i].timestamp_ms <= cm_bounds[2]}

\* C9: every adjacent pair of the sorted stream with different senders and
\* a delta within the bounds (both inclusive) gives one delta to the later
\* sender, no other pair gives any, and response_time_stats[S].count is the
\* number of such pairs.
C9_ResponseDeltas ==
    (cm_pc = "done") =>
        \A name \in MetricSenders :
            LET sorted == sort_messages(cm_messages)
                list   == DictGet(Bundle.response_time_deltas, name, <<>>)
            IN  /\ Len(list) = Cardinality(ResponsePairs(name))
                /\ \A d \in {list[k] : k \in 1..Len(list)} :
                      CountIn(list, {d}) =
                      Cardinality({i \in ResponsePairs(name) :
                          sorted[i + 1].timestamp_ms - sorted[i].timestamp_ms = d})
                /\ (name \in SendersOf(cm_messages))
                      => /\ DictHas(Bundle.response_time_stats, name)
                         /\ DictGet(Bundle.response_time_stats, name,
                                    EmptyResponseStats).count
                              = Cardinality(ResponsePairs(name))
                /\ (name \notin SendersOf(cm_messages))
                      => ~DictHas(Bundle.response_time_stats, name)

AllDeltas ==
    UNION {{DictGet(Bundle.response_time_deltas, name, <<>>)[k] :
              k \in 1..Len(DictGet(Bundle.response_time_deltas, name, <<>>))} :
           name \in MetricSenders}

\* C9 witness: a delta equal to the lower bound and one equal to the upper
\* bound were retained, and a pair of the same sender gave none.
C9_Witness ==
    /\ cm_pc = "done"
    /\ cm_bounds[1] \in AllDeltas
    /\ cm_bounds[2] \in AllDeltas
    /\ cm_bounds[1] < cm_bounds[2]

(***************************************************************************)
(* Properties of percentile (checked under SpecPercentile)                 *)
(***************************************************************************)
\* the value of rank r (0-based) among the values, by counting
OrderStatistic(values, r) ==
    CHOOSE v \in {values[i] : i \in 1..Len(values)} :
        /\ Cardinality({i \in 1..Len(values) : values[i] < v}) <= r
        /\ r < Cardinality({i \in 1..Len(values) : values[i] <= v})

\* C10: percentile is None for no values, the value itself for one, and
\* otherwise sorted[f] + (sorted[c] - sorted[f]) * (k - f) with
\* k = (n-1)*p/100, f = floor(k), c = ceil(k); it depends on the values
\* only, not on their order, and leaves the list as it was.
C10_Percentile ==
    (pt_pc = "done") =>
        LET n    == Len(pt_given)
            k100 == (n - 1) * pt_p
            f    == k100 \div 100
            c    == IF k100 % 100 = 0 THEN f ELSE f + 1
            lo   == OrderStatistic(pt_given, f)
            hi   == OrderStatistic(pt_given, c)
        IN  /\ pt_values = pt_given
            /\ (n = 0) => (pt_result = NoQ)
            /\ (n = 1) => (pt_result = Q(pt_given[1], 1))
            /\ (n >= 2) =>
                  /\ pt_result.t = "num"
                  /\ RatEq(pt_result.q,
                           <<lo * 100 + (hi - lo) * (k100 - f * 100), 100>>)

\* C10 witness: an unsorted list of three or more values was interpolated
\* between two different values.
C10_Witness ==
    /\ pt_pc = "done"
    /\ Len(pt_given) >= 3
    /\ \E i \in 1..(Len(pt_given) - 1) : pt_given[i] > pt_given[i + 1]
    /\ pt_p = 90
    /\ pt_result.t = "num"
    /\ pt_result.q[2] # 1

(***************************************************************************)
(* Properties of fast_reply_stats and night_stats (checked under           *)
(* SpecMetrics)                                                            *)
(***************************************************************************)
SortedInput == sort_messages(cm_messages)

\* the messages of name that are immediately followed, in sorted order, by a
\* message of another sender at most max_ms later
FollowedFast(name, max_ms) ==
    Cardinality({i \in 1..(Len(SortedInput) - 1) :
        /\ SortedInput[i].sender_name = name
        /\ SortedInput[i + 1].sender_name # name
        /\ SortedInput[i + 1].timestamp_ms - SortedInput[i].timestamp_ms <= max_ms})

\* C11: for every sender S, fast_reply_stats ratios[S] is the number of S's
\* messages that are immediately followed, in sorted order, by a message of
\* a different sender at most 300 s later, divided by the number of all of
\* S's messages; the winner is a sender whose ratio is maximal.
C11_FastReplyRatio ==
    cm_pc = "done" =>
        LET stats == Bundle.fast_reply_stats
        IN  /\ \A name \in SendersOf(cm_messages) :
                 /\ DictHas(stats.ratios, name)
                 /\ RatEq(DictGet(stats.ratios, name, <<0, 1>>),
                          <<FollowedFast(name, 300000), SentBy(name)>>)
            /\ stats.winner.t = "dict" =>
                 \A name \in SendersOf(cm_messages) :
                     ~RatLess(DictGet(stats.ratios, stats.winner.sender, <<0, 1>>),
                              DictGet(stats.ratios, name, <<0, 1>>))

\* the messages (of one sender, or of all) whose local hour is in [0, 5)
NightMessages(names) ==
    {i \in 1..Len(cm_messages) :
        /\ cm_messages[i].sender_name \in names
        /\ HourOf(cm_messages[i], cm_tz) \in 0..4}

\* C18: night_stats count is the number of messages whose local hour h
\* satisfies 0 <= h < 5 and is the sum of the per-sender breakdown; pct is
\* count / total messages * 100, and 0.0 when there is no such message or no
\* message at all; winner is None exactly when count is 0 and otherwise a
\* sender with the maximal night count.
C18_NightStats ==
    cm_pc = "done" =>
        LET stats == Bundle.night_stats
            all   == SendersOf(cm_messages)
        IN  /\ stats.count = Cardinality(NightMessages(all))
            /\ stats.count = DictSum(stats.per_sender)
            /\ \A name \in all :
                 DictGet(stats.per_sender, name, 0)
                     = Cardinality(NightMessages({name}))
            /\ \A i \in 1..Len(stats.per_sender) :
                 stats.per_sender[i][1] \in all /\ stats.per_sender[i][2] > 0
            /\ IF cm_messages = <<>> \/ stats.count = 0
               THEN stats.pct[1] = 0
               ELSE RatEq(stats.pct, <<stats.count * 100, Len(cm_messages)>>)
            /\ (stats.winner.t = "none") <=> (stats.count = 0)
            /\ stats.winner.t = "dict" =>
                 /\ stats.winner.sender \in all
                 /\ stats.winner.count
                        = Cardinality(NightMessages({stats.winner.sender}))
                 /\ \A name \in all :
                        Cardinality(NightMessages({name})) <= stats.winner.count

\* a run with night messages of two senders, a message at 05:00 sharp that
\* is left out, and a winner
C18_Witness ==
    /\ cm_pc = "done"
    /\ Len(Bundle.night_stats.per_sender) = 2
    /\ Bundle.night_stats.count = 2
    /\ Bundle.night_stats.winner.t = "dict"
    /\ \E i \in 1..Len(cm_messages) : HourOf(cm_messages[i], cm_tz) = 5

(***************************************************************************)
(* Properties of the text analysis (checked under SpecText)                *)
(***************************************************************************)
\* C20: removing the stopwords from tokenize_raw(text) yields exactly
\* tokenize(text), and tokenize_raw(text) holds no token shorter than 2
\* characters and no all-digit token.
C20_TokenizeRawRefines ==
    tx_pc \in {"raw", "phrase", "judged"} =>
        /\ SelectSeq(tx_raw, LAMBDA token : token \notin STOPWORDS) = tx_tokens
        /\ \A i \in 1..Len(tx_raw) :
              Len(tx_raw[i]) >= 2 /\ ~AllDigits(tx_raw[i])

\* the two words of a 2-word phrase
PhraseWords == SplitWhitespace(tx_phrase, <<>>)

\* a content word: not a stopword, at least 3 characters, with a vowel and
\* a consonant, all after the normalisation of the token
IsContentWord(word) ==
    LET token == normalize_token(word)
    IN  /\ token \notin STOPWORDS
        /\ Len(token) >= 3
        /\ \E i \in 1..Len(token) : token[i] \in {97, 101, 105, 111, 117, 121}
        /\ \E i \in 1..Len(token) :
              IsAlpha(token[i]) /\ token[i] \notin {97, 101, 105, 111, 117, 121}

C13_EmptyInput ==
    (rp_pc \in {"computed", "built", "raised"} /\ rp_messages = <<>>) =>
        /\ rp_metrics.total_messages = 0
        /\ rp_metrics.participants = <<>>
        /\ rp_metrics.message_counts = <<>>
        /\ rp_metrics.top_sender = NoText
        /\ rp_metrics.response_time_overall.count = 0
        /\ \A f \in {"avg_min", "median_min", "p90_min", "min_min", "max_min"} :
              rp_metrics.response_time_overall[f].t = "none"
        /\ rp_metrics.response_time_fastest.t = "none"
        /\ rp_metrics.response_time_slowest.t = "none"
        /\ DOMAIN rp_metrics.hourly_counts = 0..23
        /\ \A h \in 0..23 : rp_metrics.hourly_counts[h] = 0
        /\ DOMAIN rp_metrics.weekday_counts = 0..6
        /\ \A d \in 0..6 : rp_metrics.weekday_counts[d] = 0
        /\ rp_metrics.most_active_day.t = "none"
        /\ rp_metrics.longest_gap.t = "none"
        /\ rp_metrics.longest_streak.sender.t = "none"
        /\ rp_metrics.longest_streak.length = 0
        /\ rp_metrics.night_stats.count = 0
        /\ rp_metrics.night_stats.pct[1] = 0
        /\ rp_metrics.night_stats.pct[2] # 0
        /\ rp_metrics.night_stats.winner.t = "none"
        /\ rp_metrics.fast_reply_stats.winner.t = "none"
        /\ rp_metrics.starters_stats = <<>>
        /\ rp_pc # "raised"
        /\ rp_pc = "built" => (rp_stats.returned /\ ~rp_stats.raised)

\* the empty sequence went through compute_metrics and build_stats
C13_Witness ==
    /\ rp_pc = "built"
    /\ rp_messages = <<>>
    /\ rp_stats.returned
    /\ rp_stats.users = <<S_User>>
    /\ rp_stats.total = 0

\* the key set of the StatsObject the renderer reads
StatsKeys ==
    {"users", "total", "msgs", "hours", "peakHour", "nightPct", "nightWinner",
     "lastSeen", "fastReplyWinner", "fastReplyPct", "avgTime", "emojis",
     "favEmojiName", "media", "mediaKing", "fastest", "longestGap", "topDate",
     "vibeLabels", "vibeData1", "vibeData2", "vibeMain", "avgLen",
     "yapMaster", "starters", "starterKing", "topPhrases", "weekdays",
     "favDay"}

\* the number of messages of a sender in rp_messages
MessagesOf(name) ==
    Cardinality({i \in 1..Len(rp_messages) : rp_messages[i].sender_name = name})

SendersOfReport == {rp_messages[i].sender_name : i \in 1..Len(rp_messages)}

\* C14: build_stats returns exactly the key set of the renderer schema,
\* with users of length at most 2 (the participants with the highest
\* message counts), msgs, avgTime, avgLen and starters as long as users,
\* hours of length 24, weekdays of length 7, emojis and topPhrases of
\* length exactly 3, and vibeLabels, vibeData1 and vibeData2 of length 5,
\* for any number of participants.
C14_StatsShape ==
    rp_pc = "built" =>
        /\ DOMAIN rp_stats = StatsKeys \cup {"raised", "returned"}
        /\ rp_stats.returned
        /\ Len(rp_stats.users) <= 2
        /\ SendersOfReport # {} =>
              /\ Len(rp_stats.users) =
                    (IF Cardinality(SendersOfReport) < 2
                     THEN Cardinality(SendersOfReport) ELSE 2)
              /\ \A i, j \in 1..Len(rp_stats.users) :
                    i # j => rp_stats.users[i] # rp_stats.users[j]
              /\ \A i \in 1..Len(rp_stats.users) :
                    /\ rp_stats.users[i] \in SendersOfReport
                    /\ \A other \in SendersOfReport :
                          (\A j \in 1..Len(rp_stats.users) :
                              rp_stats.users[j] # other)
                          => MessagesOf(other) <= MessagesOf(rp_stats.users[i])
        /\ Len(rp_stats.msgs) = Len(rp_stats.users)
        /\ Len(rp_stats.avgTime) = Len(rp_stats.users)
        /\ Len(rp_stats.avgLen) = Len(rp_stats.users)
        /\ Len(rp_stats.starters) = Len(rp_stats.users)
        /\ DOMAIN rp_stats.hours = 0..23
        /\ DOMAIN rp_stats.weekdays = 0..6
        /\ Len(rp_stats.emojis) = 3
        /\ Len(rp_stats.topPhrases) = 3
        /\ Len(rp_stats.vibeLabels) = 5
        /\ Len(rp_stats.vibeData1) = 5
        /\ Len(rp_stats.vibeData2) = 5

\* a projected bundle of three participants with a single emoji (the list
\* of emojis is padded) and more than three phrases (the list of phrases is
\* cut)
C14_Witness ==
    /\ rp_pc = "built"
    /\ Len(rp_metrics.participants) = 3
    /\ Len(rp_metrics.top_emojis) = 1
    /\ Len(rp_metrics.top_phrases) > 3
    /\ Len(rp_stats.users) = 2
    /\ rp_stats.emojis[3] = <<46>>

\* the radar values of the k-th selected participant, in tenths: humor,
\* positivity, gossip, love, drama
RadarOf(k) == IF k = 1 THEN rp_stats.vibeData1 ELSE rp_stats.vibeData2

\* a value in tenths that is the quotient q rounded to one decimal
Near(tenths, q) ==
    LET diff == tenths * q[2] - 10 * q[1]
    IN  2 * Abs(diff) <= q[2]

\* emojis (or hearts) per message of a sender
PerMessage(totals, name) ==
    IF MessagesOf(name) = 0 THEN <<0, 1>>
    ELSE <<DictGet(totals, name, 0), MessagesOf(name)>>

\* the largest such ratio among the senders of names, 0 for no sender
LargestPerMessage(totals, names) ==
    IF names = {} THEN <<0, 1>>
    ELSE LET ratios == {PerMessage(totals, name) : name \in names}
         IN  CHOOSE q \in ratios : \A other \in ratios : ~RatLess(q, other)

AvgSentimentOf(name) ==
    AvgNumber(DictGet(rp_metrics.sentiment_per_sender, name,
                      NoSentimentEntry).avg)

\* the five axes of every selected participant, Humor and Love normalised
\* against the largest ratio among the senders of names
RadarAgainst(names) ==
    \A k \in 1..Len(rp_stats.users) :
        LET user      == rp_stats.users[k]
            data      == RadarOf(k)
            avg       == AvgSentimentOf(user)
            share     == IF rp_messages = <<>> THEN <<0, 1>>
                         ELSE <<MessagesOf(user) * 100, Len(rp_messages)>>
            max_emoji == LargestPerMessage(rp_metrics.emoji_totals, names)
            max_heart == LargestPerMessage(rp_metrics.emoji_hearts, names)
            emoji     == PerMessage(rp_metrics.emoji_totals, user)
            heart     == PerMessage(rp_metrics.emoji_hearts, user)
        IN  /\ \A i \in 1..5 : data[i] >= 0 /\ data[i] <= 1000
            /\ Near(data[3], Clamp(share))
            /\ Near(data[2], Clamp(RatAdd(<<50, 1>>, RatMul(avg, <<15, 1>>))))
            /\ Near(data[5],
                    Clamp(RatAdd(<<50, 1>>,
                                 RatMul(RatMax(RatNeg(avg), <<0, 1>>),
                                        <<20, 1>>))))
            /\ data[5] >= 500
            /\ IF max_emoji[1] = 0 THEN data[1] = 0
               ELSE Near(data[1], <<emoji[1] * max_emoji[2] * 100,
                                    emoji[2] * max_emoji[1]>>)
            /\ IF max_heart[1] = 0 THEN data[4] = 0
               ELSE Near(data[4], <<heart[1] * max_heart[2] * 100,
                                    heart[2] * max_heart[1]>>)

\* C15, as stated: every axis value lies in [0,100]; Gossip is the clamped
\* message share, Positivity clamp(50 + avgSentiment*15), Drama
\* clamp(50 + max(-avgSentiment,0)*20), never below 50; Humor and Love are
\* the per-message emoji and heart ratio divided by the largest such ratio
\* across the participants, times 100, and 0 when that maximum is 0.
C15_RadarOverParticipants ==
    rp_pc = "built" => RadarAgainst(SendersOfReport)

\* C15, amended: the same, each value rounded to one decimal, with Humor
\* and Love divided by the largest ratio among the selected participants
\* (at most two), not among all participants.
C15_RadarOverSelected ==
    rp_pc = "built" =>
        RadarAgainst({rp_stats.users[k] : k \in 1..Len(rp_stats.users)})

\* three participants, the one left out of the radar with more emojis per
\* message than both selected ones: the first selected participant gets
\* Humor 100
C15_Witness ==
    /\ rp_pc = "built"
    /\ Len(rp_metrics.participants) = 3
    /\ LET third == rp_metrics.participants[3]
       IN  \A k \in 1..2 :
              RatLess(PerMessage(rp_metrics.emoji_totals, rp_stats.users[k]),
                      PerMessage(rp_metrics.emoji_totals, third))
    /\ rp_stats.vibeData1[1] = 1000
    /\ rp_stats.vibeData1[3] = 333

(***************************************************************************)
(* Properties of sentiment_stats with a scorer (checked under              *)
(* SpecSentiment)                                                          *)
(***************************************************************************)
\* the texts of the messages with content, in stream order
StreamTexts == TextsOf(sn_items)

\* the scores given so far, in the order they were given: every message of
\* the stream falls into the month 1970-01
ScoresGiven == IF sn_st.by_month = <<>> THEN <<>> ELSE sn_st.by_month[1][2]

\* the score the scorer of the stream returns for a text
ScorerScore(text) == DictGet(StreamScorer.table, text, StreamScorer.default)

\* C12: with a scorer supplied, the texts of the messages with content are
\* passed to it in stream order in consecutive chunks of at most 32; when
\* the scorer raises on a chunk nothing is raised, every text of that chunk
\* gets the heuristic sentiment_score, and the chunks on which the scorer
\* returned keep the scores of the scorer.
C12_ScorerFallback ==
    sn_pc \in {"loop", "done"} =>
        /\ \A k \in 1..Len(sn_calls) :
              LET first == SENTIMENT_BATCH_SIZE * (k - 1) + 1
                  last  == IF SENTIMENT_BATCH_SIZE * k < Len(StreamTexts)
                           THEN SENTIMENT_BATCH_SIZE * k ELSE Len(StreamTexts)
              IN  /\ first <= last
                  /\ sn_calls[k].texts = SubSeq(StreamTexts, first, last)
        /\ sn_pc = "done" =>
              /\ Len(sn_calls) * SENTIMENT_BATCH_SIZE >= Len(StreamTexts)
              /\ Len(ScoresGiven) = Len(StreamTexts)
              /\ SumSeq([i \in 1..Len(sn_out.per_sender) |->
                            sn_out.per_sender[i][2].count]) = Len(StreamTexts)
        /\ Len(ScoresGiven) <= Len(StreamTexts)
        /\ Len(ScoresGiven) > SENTIMENT_BATCH_SIZE * (Len(sn_calls) - 1)
           \/ sn_calls = <<>>
        /\ \A j \in 1..Len(ScoresGiven) :
              LET k == (j - 1) \div SENTIMENT_BATCH_SIZE + 1
              IN  /\ k <= Len(sn_calls)
                  /\ ScoresGiven[j] = IF sn_calls[k].raised
                                      THEN sentiment_score(StreamTexts[j])
                                      ELSE ScorerScore(StreamTexts[j])

\* three chunks, the scorer raised on the second one only: its texts carry
\* the heuristic score, the texts around them the score of the scorer
C12_Witness ==
    /\ sn_pc = "done"
    /\ Len(sn_calls) = 3
    /\ ~sn_calls[1].raised /\ sn_calls[2].raised /\ ~sn_calls[3].raised
    /\ Len(sn_calls[2].texts) = SENTIMENT_BATCH_SIZE
    /\ Len(sn_calls[3].texts) < SENTIMENT_BATCH_SIZE
    /\ ScoresGiven[32] = ScorerScore(S_ok)
    /\ ScoresGiven[35] = sentiment_score(S_ok)
    /\ ScoresGiven[35].k = "tanh"
    /\ ScoresGiven[65] # sentiment_score(StreamTexts[65])

Called(name) == \E i \in 1..Len(cl_calls) : cl_calls[i] = name

\* the position of the call named in cl_calls, 0 when it was not made
CallIndex(name) ==
    IF Called(name) THEN CHOOSE i \in 1..Len(cl_calls) : cl_calls[i] = name
    ELSE 0

\* main went past the call named: a later call was made
Returned_(name) == Called(name) /\ CallIndex(name) < Len(cl_calls)

\* C19: main calls render_report only after the timezone was accepted,
\* load_messages returned at least one message, the sentiment backend was
\* resolved and compute_metrics returned; when no message is retained it
\* prints "No valid messages found.", returns 1 and neither computes the
\* metrics nor writes a report; it returns 0 only after the report was
\* written.
C19_CliGating ==
    /\ Called("render_report") =>
          /\ cl_args.timezone_ok /\ cl_args.input_ok /\ cl_messages >= 1
          /\ cl_args.backend = "hf" =>
                (cl_args.model_ok /\ Returned_("get_sentiment_scorer"))
          /\ cl_args.metrics_ok
          /\ Returned_("ZoneInfo") /\ Returned_("load_messages")
          /\ Returned_("compute_metrics")
          /\ CallIndex("ZoneInfo") < CallIndex("load_messages")
          /\ CallIndex("load_messages") < CallIndex("compute_metrics")
          /\ CallIndex("compute_metrics") < CallIndex("render_report")
          /\ CallIndex("render_report") = Len(cl_calls)
    /\ (cl_pc \notin {"start", "timezone", "loaded"} /\ Called("load_messages")
        /\ cl_args.input_ok /\ cl_messages = 0) =>
          /\ cl_pc = "returned"
          /\ cl_exit = 1
          /\ cl_stderr = <<"No valid messages found.">>
          /\ ~Called("compute_metrics")
          /\ ~Called("render_report")
    /\ cl_exit = 0 =>
          /\ Called("render_report")
          /\ cl_args.output_ok
          /\ cl_stdout # <<>>
          /\ cl_stdout[1] = "Report written to"
          /\ cl_stderr = <<>>

\* a run with the backend hf that wrote the report and returned 0
C19_Witness ==
    /\ cl_pc = "returned"
    /\ cl_exit = 0
    /\ cl_args.backend = "hf"
    /\ cl_calls = <<"ZoneInfo", "load_messages", "get_sentiment_scorer",
                    "compute_metrics", "render_report">>
    /\ cl_messages = MaxRetained
    /\ Len(cl_stdout) = 2

\* a run whose input held no message that was retained
C19_WitnessEmpty ==
    /\ cl_pc = "returned"
    /\ cl_args.input_ok
    /\ cl_messages = 0
    /\ cl_exit = 1
    /\ cl_calls = <<"ZoneInfo", "load_messages">>

(***************************************************************************)
(* Properties of the order-dependent statistics (checked under SpecOrder)  *)
(***************************************************************************)
Ordered == od_out

\* the place of message i of the caller's list in the stable ascending
\* order: behind every message with a smaller timestamp and behind every
\* earlier message with the same timestamp
StablePlace(i) ==
    1 + Cardinality({j \in 1..Len(od_messages) :
            \/ od_messages[j].timestamp_ms < od_messages[i].timestamp_ms
            \/ /\ od_messages[j].timestamp_ms = od_messages[i].timestamp_ms
               /\ j < i})

\* the caller's list in that order
InOrder ==
    [p \in 1..Len(od_messages) |->
        od_messages[CHOOSE i \in 1..Len(od_messages) : StablePlace(i) = p]]

\* the time between message p of the ordered stream and the next one
GapAfter(p) == InOrder[p + 1].timestamp_ms - InOrder[p].timestamp_ms

\* the k-th smallest number of a set
KthOf(set, k) == CHOOSE p \in set : Cardinality({q \in set : q < p}) = k - 1

\* the adjacent pairs of the ordered stream that give name a response delta
RepliesOf(name) ==
    {p \in 1..(Len(InOrder) - 1) :
        /\ InOrder[p].sender_name # InOrder[p + 1].sender_name
        /\ InOrder[p + 1].sender_name = name
        /\ DefaultMinMs <= GapAfter(p)
        /\ GapAfter(p) <= DefaultMaxMs}

\* the messages of name that have a successor, and those of them answered
\* by somebody else within five minutes
FollowedOf(name) ==
    {p \in 1..(Len(InOrder) - 1) : InOrder[p].sender_name = name}

FastOf(name) ==
    {p \in FollowedOf(name) :
        /\ InOrder[p + 1].sender_name # name
        /\ GapAfter(p) <= 300000}

\* messages p..q of the ordered stream are from one sender
RunOfOne(p, q) == \A r \in p..q : InOrder[r].sender_name = InOrder[p].sender_name

\* the messages after a silence of more than six hours
AfterSilence(name) ==
    {p \in 1..(Len(InOrder) - 1) :
        /\ InOrder[p + 1].sender_name = name
        /\ GapAfter(p) > 21600000}

\* message p is the last one of its local day in the ordered stream, and
\* the messages of name that are such a last one at 23 h or later
LastOfDay(p) ==
    \A q \in (p + 1)..Len(InOrder) :
        DateLabel(InOrder[q], od_tz) # DateLabel(InOrder[p], od_tz)

LateLastOf(name) ==
    {p \in 1..Len(InOrder) :
        /\ LastOfDay(p)
        /\ InOrder[p].sender_name = name
        /\ HourOf(InOrder[p], od_tz) >= 23}

\* C21: sort_messages returns the messages of its input in non-decreasing
\* timestamp order, messages of equal timestamp in their input order, and
\* the response deltas, fast replies, streak, gap, starters and last-to-text
\* of the bundle are those of that order.
C21_SortedOrder ==
    (od_pc = "done") =>
        /\ sort_messages(od_messages) = InOrder
        /\ \A i \in 1..Len(od_messages) : InOrder[StablePlace(i)] = od_messages[i]
        /\ \A p \in 1..(Len(InOrder) - 1) : GapAfter(p) >= 0
        /\ \A name \in OrderSenders :
              LET list == DictGet(Ordered.response_time_deltas, name, <<>>)
              IN  /\ Len(list) = Cardinality(RepliesOf(name))
                  /\ \A k \in 1..Len(list) :
                        list[k] = GapAfter(KthOf(RepliesOf(name), k))
                  /\ DictGet(Ordered.fast_reply_stats.totals, name, 0)
                       = Cardinality(FollowedOf(name))
                  /\ DictGet(Ordered.fast_reply_stats.fast_counts, name, 0)
                       = Cardinality(FastOf(name))
                  /\ DictGet(Ordered.starters_stats, name, 0)
                       = Cardinality(AfterSilence(name))
                         + (IF od_messages # <<>> /\ InOrder[1].sender_name = name
                            THEN 1 ELSE 0)
                  /\ DictGet(Ordered.last_seen_stats.counts, name, 0)
                       = Cardinality(LateLastOf(name))
        /\ \E p \in 1..(Len(InOrder) + 1) :
              /\ \/ Ordered.longest_streak.length = 0 /\ od_messages = <<>>
                 \/ /\ p + Ordered.longest_streak.length - 1 <= Len(InOrder)
                    /\ Ordered.longest_streak.length >= 1
                    /\ RunOfOne(p, p + Ordered.longest_streak.length - 1)
                    /\ Ordered.longest_streak.sender = Text(InOrder[p].sender_name)
              /\ \A q \in 1..Len(InOrder) :
                    \A r \in q..Len(InOrder) :
                        RunOfOne(q, r) => r - q + 1 <= Ordered.longest_streak.length
        /\ IF Len(InOrder) < 2 THEN Ordered.longest_gap = NoGap
           ELSE /\ \E p \in 1..(Len(InOrder) - 1) :
                      /\ Ordered.longest_gap.duration_seconds = GapAfter(p)
                      /\ Ordered.longest_gap.start.ts = InOrder[p].timestamp_ms
                      /\ Ordered.longest_gap.end.ts = InOrder[p + 1].timestamp_ms
                /\ \A p \in 1..(Len(InOrder) - 1) :
                      GapAfter(p) <= Ordered.longest_gap.duration_seconds

\* C21 witness: the caller's list is not in timestamp order, holds two
\* messages of one timestamp from different senders, and the starters, the
\* response deltas and the streak of the bundle differ from those of the
\* list as given
C21_Witness ==
    /\ od_pc = "done"
    /\ od_messages # InOrder
    /\ \E i, j \in 1..Len(od_messages) :
          /\ i < j
          /\ od_messages[i].timestamp_ms = od_messages[j].timestamp_ms
          /\ od_messages[i].sender_name # od_messages[j].sender_name
          /\ StablePlace(i) < StablePlace(j)
    /\ Ordered.starters_stats
         # StartersInto(<<<<od_messages[1].sender_name, 1>>>>, od_messages, 21600000)
    /\ Ordered.response_time_deltas
         # DeltasFrom(<<>>, od_messages, DefaultMinMs, DefaultMaxMs)
    /\ Ordered.longest_streak
         # StreakInto(NoSender, 0, NoSender, 0, od_messages)

\* the local days whose last message came at 23 h or later
LateDays ==
    {DateLabel(InOrder[p], od_tz) :
        p \in {q \in 1..Len(InOrder) :
                  LastOfDay(q) /\ HourOf(InOrder[q], od_tz) >= 23}}

\* the sum of the quotients of a dict
RECURSIVE RatSum(_)
RatSum(d) == IF d = <<>> THEN <<0, 1>> ELSE RatAdd(Head(d)[2], RatSum(Tail(d)))

C22_WitnessNone ==
    /\ od_pc = "done"
    /\ Len(od_messages) = MaxOrderMessages
    /\ Ordered.last_seen_stats.total = 0
    /\ Ordered.last_seen_stats.winner = NoWinner
    /\ \E p \in 1..Len(InOrder) : HourOf(InOrder[p], 0) >= 23

\* the adjacent pairs of the ordered stream more than six hours apart
Silences == {p \in 1..(Len(InOrder) - 1) : GapAfter(p) > 21600000}

\* C23: conversation_starters of the empty stream is the empty map;
\* otherwise the sender of the first message of the sorted stream gets one
\* credit and every later message more than 21600 s after its predecessor
\* gives one to its own sender, so the credits sum to 1 + the number of
\* adjacent pairs with a delta above the threshold.
C23_Starters ==
    (od_pc = "done") =>
        LET starters == Ordered.starters_stats
        IN  /\ (od_messages = <<>>) => starters = <<>>
            /\ (od_messages # <<>>) =>
                  /\ starters[1][1] = InOrder[1].sender_name
                  /\ DictSum(starters) = 1 + Cardinality(Silences)
                  /\ \A i \in 1..Len(starters) :
                        /\ starters[i][1] \in OrderSenders
                        /\ starters[i][2] >= 1
                        /\ \A j \in 1..Len(starters) :
                              starters[j][1] = starters[i][1] => j = i
                  /\ \A name \in OrderSenders :
                        DictGet(starters, name, 0) =
                            Cardinality({p \in Silences :
                                            InOrder[p + 1].sender_name = name})
                            + (IF InOrder[1].sender_name = name THEN 1 ELSE 0)

\* C23 witness: a message exactly 21600 s after its predecessor got no
\* credit, a later one after a longer silence got one, and the sender of
\* the first message got the credit of the start only
C23_Witness ==
    /\ od_pc = "done"
    /\ \E p \in 1..(Len(InOrder) - 1) :
          /\ GapAfter(p) = 21600000
          /\ p \notin Silences
          /\ InOrder[p + 1].sender_name # InOrder[1].sender_name
          /\ p + 1 \in Silences
          /\ InOrder[p + 2].sender_name = InOrder[p + 1].sender_name
    /\ Ordered.starters_stats =
          <<<<InOrder[1].sender_name, 1>>, <<InOrder[2].sender_name, 1>>>>

(***************************************************************************)
(* Properties of the word and phrase tallies (checked under SpecWords)     *)
(***************************************************************************)
Worded == wd_out

WordSenders == {S_Al, S_Bo}

\* the text holds the word (of small ASCII letters) in small or capital
\* letters
HoldsWord(text, word) ==
    \E i \in 1..(Len(text) - Len(word) + 1) :
        \A k \in 1..Len(word) : text[i + k - 1] \in {word[k], word[k] - 32}

\* a message with content that holds "user" or "unsent"
Excluded(msg) ==
    /\ HasContent(msg)
    /\ HoldsWord(msg.content.s, S_user) \/ HoldsWord(msg.content.s, S_unsent)

\* the messages in sorted order, those of them with content, and those
\* that are tallied
WordStream == sort_messages(wd_messages)

WithContent == SelectSeq(WordStream, HasContent)

Tallied == SelectSeq(WithContent, LAMBDA msg : ~Excluded(msg))

From(msgs, name) == SelectSeq(msgs, LAMBDA msg : msg.sender_name = name)

\* the occurrences of a token in the tokens of the messages, and the
\* tokens that occur
Occurrences(token, msgs) ==
    SumSeq([i \in 1..Len(msgs) |-> CountIn(tokenize(msgs[i].content.s), {token})])

TokensOf(msgs) ==
    UNION {{tokenize(msgs[i].content.s)[k] :
              k \in 1..Len(tokenize(msgs[i].content.s))} : i \in 1..Len(msgs)}

\* top is a list of at most n (token, count) pairs of different tokens in
\* non-increasing count order, each count the occurrences of the token in
\* msgs, and no token left out occurs more often than a listed one
IsTopOf(top, n, msgs) ==
    /\ Len(top) <= n
    /\ \A i \in 1..Len(top) :
          /\ top[i][2] = Occurrences(top[i][1], msgs)
          /\ top[i][2] >= 1
          /\ \A j \in (i + 1)..Len(top) :
                top[j][2] <= top[i][2] /\ top[j][1] # top[i][1]
    /\ \A token \in TokensOf(msgs) :
          \/ DictHas(top, token)
          \/ Len(top) = n /\ Occurrences(token, msgs) <= top[n][2]

\* the adjacent pairs of the sorted stream that give name a response delta
WordReplies(name) ==
    {p \in 1..(Len(WordStream) - 1) :
        /\ WordStream[p].sender_name # WordStream[p + 1].sender_name
        /\ WordStream[p + 1].sender_name = name
        /\ DefaultMinMs <= WordStream[p + 1].timestamp_ms - WordStream[p].timestamp_ms
        /\ WordStream[p + 1].timestamp_ms - WordStream[p].timestamp_ms <= DefaultMaxMs}

\* the messages with at least one token
WithTokens(msgs) == SelectSeq(msgs, LAMBDA msg : tokenize(msg.content.s) # <<>>)

\* C24: top_words holds at most 10 (token, count) pairs in non-increasing
\* count order (per sender at most 5), the count being the occurrences of
\* the tokenize token in the messages with content that holds neither
\* "user" nor "unsent" in any case; the messages that hold one contribute
\* nothing to top_words, top_phrases and their per-sender variants, and are
\* counted in total_messages, message_counts, the hourly and weekday
\* counts, the response deltas, the emoji totals, the sentiment counts and
\* the average length.
C24_WordTallies ==
    (wd_pc = "done") =>
        /\ IsTopOf(Worded.top_words, 10, Tallied)
        /\ \A i \in 1..Len(Worded.top_words_by_sender) :
              /\ Worded.top_words_by_sender[i][1] \in WordSenders
              /\ IsTopOf(Worded.top_words_by_sender[i][2], 5,
                         From(Tallied, Worded.top_words_by_sender[i][1]))
        /\ \A name \in WordSenders :
              DictHas(Worded.top_words_by_sender, name)
                  <=> TokensOf(From(Tallied, name)) # {}
        /\ Worded.top_words = word_stats(Tallied).top_global
        /\ Worded.top_words_by_sender = word_stats(Tallied).top_per_sender
        /\ Worded.top_phrases = popular_phrases(Tallied).top_global
        /\ Worded.top_phrases_by_sender = popular_phrases(Tallied).top_per_sender
        /\ Len(Worded.top_phrases) <= 10
        /\ Worded.total_messages = Len(wd_messages)
        /\ SumSeq([h \in 1..24 |-> Worded.hourly_counts[h - 1]]) = Len(wd_messages)
        /\ SumSeq([d \in 1..7 |-> Worded.weekday_counts[d - 1]]) = Len(wd_messages)
        /\ \A name \in WordSenders :
              /\ DictGet(Worded.message_counts, name, 0) = Len(From(WordStream, name))
              /\ Len(DictGet(Worded.response_time_deltas, name, <<>>))
                   = Cardinality(WordReplies(name))
              /\ DictGet(Worded.emoji_totals, name, 0)
                   = SumSeq([i \in 1..Len(From(WithContent, name)) |->
                               Len(extract_emojis(From(WithContent, name)[i].content.s))])
              /\ DictGet(Worded.sentiment_per_sender, name,
                         [avg |-> NoSum, total |-> NoSum, count |-> 0]).count
                   = Len(From(WithContent, name))
              /\ LET counted == WithTokens(From(WithContent, name))
                 IN  IF counted = <<>> THEN ~DictHas(Worded.avg_len_stats, name)
                     ELSE RatEq(DictGet(Worded.avg_len_stats, name, <<0, 1>>),
                                <<SumSeq([i \in 1..Len(counted) |->
                                            Len(tokenize(counted[i].content.s))]),
                                  Len(counted)>>)

\* C24 witness: the stream holds "User dom kot", "kot UNSENT las" with a
\* heart and a message that is tallied; the words of the first two are not
\* in the tallies, their senders' messages, emoji, sentiment and length
\* counts include them
C24_Witness ==
    /\ wd_pc = "done"
    /\ \E i, j \in 1..Len(wd_messages) :
          /\ wd_messages[i].content = Text(W_user)
          /\ wd_messages[j].content = Text(W_unsent)
    /\ Worded.top_words = <<<<S_dom, 2>>, <<S_las, 1>>>>
    /\ Len(Worded.top_phrases) = 3
    /\ Worded.total_messages = 3
    /\ DictGet(Worded.emoji_totals, S_Bo, 0) = 1
    /\ DictGet(Worded.message_counts, S_Bo, 0) = 2
    /\ RatEq(DictGet(Worded.avg_len_stats, S_Bo, <<0, 1>>), <<6, 2>>)
    /\ RatEq(DictGet(Worded.avg_len_stats, S_Al, <<0, 1>>), <<3, 1>>)
    /\ ~DictHas(Worded.top_words_by_sender, S_Al)

\* twelve different words: ten are listed, five for the sender of eight
C24_WitnessCut ==
    /\ wd_pc = "done"
    /\ Cardinality(TokensOf(Tallied)) = 12
    /\ Len(Worded.top_words) = 10
    /\ Len(Worded.top_phrases) = 10
    /\ Len(DictGet(Worded.top_words_by_sender, S_Al, <<>>)) = 5
    /\ Cardinality(TokensOf(From(Tallied, S_Al))) = 8


(***************************************************************************)
(* Properties of the token walk of sentiment_score (checked under          *)
(* SpecWalk).                                                              *)
(***************************************************************************)
\* the walk before the turn of token j
WalkBefore(j) == IF j = 1 THEN WalkStart ELSE wk_trace[j - 1]

\* the token has a weight in the lexicon
LexiconMatched(token) == DictGet(SENTIMENT_LEXICON, token, <<0, 1>>)[1] # 0

\* what a lexicon-matched token adds to the score: its weight times the
\* intensifier, flipped and scaled by 0.85 under a negation
Contribution(token, before) ==
    LET weight == DictGet(SENTIMENT_LEXICON, token, <<0, 1>>)
    IN  RatMul(IF before.negate > 0 THEN RatMul(RatNeg(weight), <<85, 100>>)
               ELSE weight,
               before.intensify)

\* the turn of token j is the one the statement describes
TurnAsStated(j) ==
    LET token  == wk_tokens[j]
        before == WalkBefore(j)
        after  == wk_trace[j]
    IN  /\ after.negate \in {0, 1, 2}
        /\ token \in NEGATIONS => after.negate = 2
        /\ token \notin NEGATIONS /\ LexiconMatched(token) =>
              /\ after.negate = IF before.negate > 0 THEN before.negate - 1 ELSE 0
              /\ RatEq(after.score, RatAdd(before.score, Contribution(token, before)))
              /\ after.intensify = <<1, 1>>
        /\ token \notin NEGATIONS /\ ~LexiconMatched(token) =>
              /\ after.negate = before.negate
              /\ RatEq(after.score, before.score)

\* C25: the negation counter is 0, 1 or 2; a negation sets it to 2; every
\* token with a lexicon weight met while the counter is positive is flipped,
\* scaled by 0.85 and takes one off the counter; a token without a lexicon
\* weight leaves the counter alone; after every token with a lexicon weight
\* the intensifier is 1 again
C25_TokenWalk == \A j \in 1..Len(wk_trace) : TurnAsStated(j)

\* "nie super dobry" has been walked: "super", a word of the lexicon, came
\* right after the negation and left the counter at 2
C25_Shadowed ==
    /\ wk_pc = "done"
    /\ wk_tokens = <<S_nie, S_super, S_dobry>>
    /\ wk_trace[2].negate = 2
    /\ wk_trace[2].score = <<0, 1>>

(***************************************************************************)
(* Properties of the winners of build_stats (checked under SpecWinners).   *)
(***************************************************************************)
\* name is the first key of the mapping that no other key exceeds
FirstMaximal(name, d) ==
    \E i \in 1..Len(d) :
        /\ d[i][1] = name
        /\ \A j \in 1..Len(d) : d[j][2] <= d[i][2]
        /\ \A j \in 1..(i - 1) : d[j][2] < d[i][2]

\* the same for quotients
FirstMaximalRatio(name, d) ==
    \E i \in 1..Len(d) :
        /\ d[i][1] = name
        /\ \A j \in 1..Len(d) : ~RatLess(d[i][2], d[j][2])
        /\ \A j \in 1..(i - 1) : RatLess(d[j][2], d[i][2])

\* name is the first key of the mapping that no other key is below
FirstMinimalRatio(name, d) ==
    \E i \in 1..Len(d) :
        /\ d[i][1] = name
        /\ \A j \in 1..Len(d) : ~RatLess(d[j][2], d[i][2])
        /\ \A j \in 1..(i - 1) : RatLess(d[i][2], d[j][2])

\* photos, videos, audio and links of the messages of a sender
MediaOf(name) ==
    SumSeq([i \in 1..Len(wn_messages) |->
               IF wn_messages[i].sender_name # name THEN 0
               ELSE wn_messages[i].photo_count + wn_messages[i].video_count
                    + wn_messages[i].audio_count
                    + (IF HasContent(wn_messages[i])
                       THEN Len(extract_links(wn_messages[i].content.s)) ELSE 0)])

\* the media score of every participant, in the order of the participants
MediaScores ==
    [i \in 1..Len(wn_metrics.participants) |->
        <<wn_metrics.participants[i], MediaOf(wn_metrics.participants[i])>>]

\* the senders with an average response time, in the order of the mapping
AverageTimes ==
    LET with_avg == SelectSeq(wn_metrics.response_time_stats,
                              LAMBDA it : it[2].avg_min.t = "num")
    IN  [i \in 1..Len(with_avg) |-> <<with_avg[i][1], with_avg[i][2].avg_min.q>>]

\* two keys of the mapping share the greatest value
TiedAtTop(d) ==
    \E i, j \in 1..Len(d) :
        /\ i # j
        /\ d[i][2] = d[j][2]
        /\ \A k \in 1..Len(d) : d[k][2] <= d[i][2]

C26_WitnessTimes ==
    /\ wn_pc = "built"
    /\ Len(AverageTimes) = 2 /\ RatEq(AverageTimes[1][2], AverageTimes[2][2])
    /\ wn_stats.fastest.user = S_Bo
    /\ Len(wn_metrics.fast_reply_stats.ratios) = 2
    /\ RatEq(wn_metrics.fast_reply_stats.ratios[1][2],
             wn_metrics.fast_reply_stats.ratios[2][2])
    /\ wn_stats.fastReplyWinner = S_Al

\* a projected bundle in which two senders tie for the conversations
\* started, for the last messages of a day and for the average length
C26_WitnessStarters ==
    /\ wn_pc = "built"
    /\ TiedAtTop(wn_metrics.starters_stats)
    /\ wn_stats.starterKing = S_Bo
    /\ TiedAtTop(wn_metrics.last_seen_stats.counts)
    /\ wn_stats.lastSeen.name = S_Bo
    /\ Len(wn_metrics.avg_len_stats) = 2
    /\ RatEq(wn_metrics.avg_len_stats[1][2], wn_metrics.avg_len_stats[2][2])
    /\ wn_stats.yapMaster = S_Bo

\* a projected bundle of messages without photos, videos, audio and links
C26_WitnessNone ==
    /\ wn_pc = "built"
    /\ wn_messages # <<>>
    /\ wn_stats.mediaKing = S_na

(***************************************************************************)
(* Properties of the response summaries (checked under SpecReplies).       *)
(***************************************************************************)
RatLeq(a, b) == ~RatLess(b, a)

\* the five statistics are numbers, in order, and within the bounds
InOrderWithin(stats, min_ms, max_ms) ==
    /\ \A f \in {"avg_min", "median_min", "p90_min", "min_min", "max_min"} :
          /\ stats[f].t = "num"
          /\ RatLeq(<<min_ms, 1>>, stats[f].q)
          /\ RatLeq(stats[f].q, <<max_ms, 1>>)
    /\ RatLeq(stats.min_min.q, stats.median_min.q)
    /\ RatLeq(stats.median_min.q, stats.p90_min.q)
    /\ RatLeq(stats.p90_min.q, stats.max_min.q)
    /\ RatLeq(stats.min_min.q, stats.avg_min.q)
    /\ RatLeq(stats.avg_min.q, stats.max_min.q)

\* count 0 and no statistics
NoStatistics(stats) ==
    /\ stats.count = 0
    /\ \A f \in {"avg_min", "median_min", "p90_min", "min_min", "max_min"} :
          stats[f].t = "none"

\* the deltas attributed to a sender: the messages of the sender that follow
\* a message of the other sender at a gap within the bounds (the drawn
\* stream is in the order of its timestamps)
RetainedOf(name) ==
    Cardinality({i \in 2..Len(rs_messages) :
        /\ rs_messages[i].sender_name = name
        /\ rs_messages[i - 1].sender_name # name
        /\ rs_messages[i].timestamp_ms - rs_messages[i - 1].timestamp_ms >= ReplyMinMs
        /\ rs_messages[i].timestamp_ms - rs_messages[i - 1].timestamp_ms <= ReplyMaxMs})

\* C27: the summary of every sender with a delta, and the overall summary,
\* has min <= median <= p90 <= max and min <= avg <= max within the bounds;
\* the overall count is the sum of the counts of the senders; every
\* participant has a summary, with count 0 and no statistics when no delta
\* is attributed to them
C27_ResponseSummaries ==
    rs_pc = "computed" =>
        LET stats   == rs_out.response_time_stats
            overall == rs_out.response_time_overall
        IN  /\ \A i \in 1..Len(stats) :
                  /\ stats[i][2].count = RetainedOf(stats[i][1])
                  /\ IF stats[i][2].count > 0
                     THEN InOrderWithin(stats[i][2], ReplyMinMs, ReplyMaxMs)
                     ELSE NoStatistics(stats[i][2])
            /\ IF overall.count > 0
               THEN InOrderWithin(overall, ReplyMinMs, ReplyMaxMs)
               ELSE NoStatistics(overall)
            /\ overall.count = SumSeq([i \in 1..Len(stats) |-> stats[i][2].count])
            /\ \A i \in 1..Len(rs_out.participants) :
                  Cardinality({j \in 1..Len(stats) :
                                  stats[j][1] = rs_out.participants[i]}) = 1

\* a bundle whose overall summary is of four deltas with
\* min < median < p90 < max, each sender having two deltas
C27_Witness ==
    /\ rs_pc = "computed"
    /\ rs_out.response_time_overall.count = 4
    /\ RatLess(rs_out.response_time_overall.min_min.q,
               rs_out.response_time_overall.median_min.q)
    /\ RatLess(rs_out.response_time_overall.median_min.q,
               rs_out.response_time_overall.p90_min.q)
    /\ RatLess(rs_out.response_time_overall.p90_min.q,
               rs_out.response_time_overall.max_min.q)
    /\ \A i \in 1..2 : rs_out.response_time_stats[i][2].count = 2

\* a bundle in which one participant has a delta and the other, whose
\* replies came too early or too late, has none
C27_WitnessNone ==
    /\ rs_pc = "computed"
    /\ Len(rs_messages) = MaxReplyMessages
    /\ Len(rs_out.response_time_stats) = 2
    /\ rs_out.response_time_stats[1][2].count > 0
    /\ rs_out.response_time_stats[2][2].count = 0

(***************************************************************************)
(* Properties of sentiment_stats with any scorer (checked under            *)
(* SpecScores).                                                            *)
(***************************************************************************)
ScoredItems == SentimentItems(sc_messages)

\* the score is a number: a float or an int, not None and not a string
IsNumeric(score) == score.k \in {"exact", "tanh", "huge"}

\* the score the statement gives the i-th message with content: that of
\* sentiment_score when the scorer raised, the i-th returned score when
\* there is one and it is a number, 0.0 otherwise
ScoreAsStated(i) ==
    IF sc_outcome.raised THEN sentiment_score(ScoredItems[i].text)
    ELSE IF i <= Len(sc_outcome.scores) /\ IsNumeric(sc_outcome.scores[i])
    THEN sc_outcome.scores[i]
    ELSE ExactScore(<<0, 1>>)

\* score_val of every message with content, in the order of the messages
\* (all messages are of one month)
ScoresAssigned == IF sc_st.by_month = <<>> THEN <<>> ELSE sc_st.by_month[1][2]

\* C28: whatever the scorer does, every message with content gets exactly
\* one score, that of its own position: a missing or non-numeric score is
\* 0.0, surplus scores are ignored, and the counts of the senders sum to the
\* number of messages with content
C28_ScorerRobustness ==
    sc_pc # "input" =>
        /\ sc_pc = "done"
        /\ Len(ScoresAssigned) = Len(ScoredItems)
        /\ \A i \in 1..Len(ScoredItems) : ScoresAssigned[i] = ScoreAsStated(i)
        /\ SumSeq([i \in 1..Len(sc_out.per_sender) |-> sc_out.per_sender[i][2].count])
              = Len(ScoredItems)

\* the scorer returned the string "0.5" for a message, which got 0.5
C28_NumeralCounted ==
    /\ sc_pc = "done"
    /\ Len(ScoredItems) = 1
    /\ sc_outcome = Returned(<<Numeral(<<1, 2>>)>>)
    /\ ScoresAssigned = <<ExactScore(<<1, 2>>)>>

\* the scorer returned 10**400 for a message, and sentiment_stats raised
C28_OverflowEscapes ==
    /\ sc_pc = "raised"
    /\ Len(ScoredItems) = 1
    /\ sc_outcome = Returned(<<HugeInt>>)

(***************************************************************************)
(* Properties of the caches of engine_v4 (checked under SpecEngine).       *)
(***************************************************************************)
\* every file of every chat of CHATS_MAP is a key of JSON_CACHE
FilesCached ==
    \A i \in 1..Len(en_CHATS_MAP) :
        \A j \in 1..Len(en_CHATS_MAP[i][2]) :
            DictHas(en_JSON_CACHE, en_CHATS_MAP[i][2][j])

\* C29: after any calls of load_chats, returning or raising, and of
\* generate_stats, every file listed under a chat id of CHATS_MAP is a key
\* of JSON_CACHE and CHATS_MAP holds chat ids of the most recent call of
\* load_chats only
C29_CacheConsistency ==
    /\ FilesCached
    /\ \A i \in 1..Len(en_CHATS_MAP) : en_CHATS_MAP[i][1] \in en_recent

\* a call of load_chats has raised after one that returned a chat: the chat
\* id is still known, its file is cached no more, and generate_stats raises
\* "No messages" for it
C29_StaleChat ==
    /\ en_calls = 2
    /\ en_recent = {}
    /\ en_CHATS_MAP = <<<<ChatId(1, 1), <<"message_1.json">>>>>>
    /\ en_JSON_CACHE = <<>>
    /\ en_result.t = "No messages"

\* a call of load_chats on a zip has raised after it had cached a file of
\* the name of a file of the earlier chat: generate_stats builds the
\* statistics of the old chat id from the data of the failed call
C29_StaleChatNewData ==
    /\ en_calls = 2
    /\ en_recent = {}
    /\ en_result.t = "stats"
    /\ \E i \in 1..Len(en_result.sources) : en_result.sources[i].call = 2

(***************************************************************************)
(* Properties of overlapping uploads of logic_v3 (checked under            *)
(* SpecLogic).                                                             *)
(***************************************************************************)
\* every upload that has started has finished
AllFinished ==
    /\ lg_started >= 1
    /\ \A k \in 1..MaxUploads : lg_up[k].pc \in {"new", "done"}

\* CHATS_MAP and JSON_CACHE hold chats and files of the given upload only
OnlyOf(upload) ==
    /\ \A i \in 1..Len(lg_CHATS_MAP) : lg_CHATS_MAP[i][1][1] = upload
    /\ \A i \in 1..Len(lg_JSON_CACHE) : lg_JSON_CACHE[i][2].upload = upload

\* the data of the report is of one upload, that of its chat id
OfOneUpload(report) ==
    \A i \in 1..Len(report.sources) : report.sources[i].upload = report.chat_id[1]

\* C30: once all handle_upload invocations have finished, CHATS_MAP and
\* JSON_CACHE hold only the chats and files of the upload that started
\* last, and a report built while an upload is in progress is never built
\* from a mix of two uploads
C30_OverlappingUploads ==
    /\ AllFinished => OnlyOf(lg_started)
    /\ lg_report.t = "report" /\ lg_report.uploading => OfOneUpload(lg_report)

\* two uploads have overlapped and finished, and a file of the one that
\* started first is still in JSON_CACHE and its chat in CHATS_MAP
C30_LeftOver ==
    /\ lg_started = 2
    /\ AllFinished
    /\ \E i \in 1..Len(lg_CHATS_MAP) : lg_CHATS_MAP[i][1][1] = 1
    /\ \E i \in 1..Len(lg_JSON_CACHE) : lg_JSON_CACHE[i][2].upload = 1

\* while an upload is in progress a report has been built from a file of
\* one upload and a file of another
C30_MixedReport ==
    /\ lg_report.t = "report"
    /\ lg_report.uploading
    /\ \E i, j \in 1..Len(lg_report.sources) :
          lg_report.sources[i].upload # lg_report.sources[j].upload
====
